---- MODULE Spec2Model ----
(***************************************************************************)
(* A model of the brick detection and tracking engine of                   *)
(* lego-brick-detection: the classic detector (BrickDetector with its      *)
(* ColorMatcher), the neural engine (YOLOv8Engine), the lifecycle state    *)
(* (DetectionStateManager) and the background loader (ModelLoaderThread).  *)
(*                                                                         *)
(* It also covers the main window's detection toggle, the brick list      *)
(* widget with the counters of its set, and the image cache.               *)
(*                                                                         *)
(* The specifications share the variables:                                 *)
(*   SpecDetector  the classic detector, called frame by frame;            *)
(*   SpecWindow    the classic detector run until its window is full;      *)
(*   SpecNms       _filter_detections called on lists of detections;       *)
(*   SpecResult    the constructor of DetectionResult;                     *)
(*   SpecManual    the classic detector with bricks marked by hand;        *)
(*   SpecEngine    the neural engine, called sequentially;                 *)
(*   SpecFaults    the engine or the detector with failing internals;      *)
(*   SpecRace      unload_model and infer on two threads;                  *)
(*   SpecLock      the state manager under concurrent threads, one         *)
(*                 statement of set_state / get_state per step;            *)
(*   SpecLockFair  the same under a fair scheduler;                        *)
(*   SpecGui       the main window's detection toggle and frame handler;   *)
(*   SpecList      the brick list widget and the counters of its set;      *)
(*   SpecCache     the image cache.                                        *)
(* Each leaves the variables of the others unchanged.                      *)
(***************************************************************************)
EXTENDS Integers, Sequences, FiniteSets, TLC

VARIABLES
    \* ---- BrickDetector / ColorMatcher / LegoSet ----
    current_set,        \* BrickDetector.current_set: "None" or "set"
    found_quantity,     \* Brick.found_quantity of every brick of the set
    color_threshold,    \* ColorMatcher.color_threshold, Unset before set_params
    detection_history,  \* BrickDetector.detection_history
    det_ret,            \* the list the last detect_bricks call returned
    nCalls,             \* detect_bricks calls made with a set configured
    nPushes,            \* _update_history calls made
    pushed,             \* every list _update_history was given, oldest first
    det_call,           \* the last detect_bricks call: its frame, the found
                        \* quantities and colour threshold it met, and the
                        \* detections it gave to _filter_detections
    \* ---- a function of the detector called on its own ----
    call,               \* the last such call: its name, argument and result
    \* ---- YOLOv8Engine and its DetectionStateManager ----
    state,              \* DetectionStateManager._state
    error_message,      \* DetectionStateManager._error_message
    model,              \* YOLOv8Engine.model: "None" or "yolo"
    device,             \* YOLOv8Engine.device
    fallback_attempted, \* YOLOv8Engine._fallback_attempted
    last_detections,    \* YOLOv8Engine.last_detections
    confidence_threshold, \* YOLOv8Engine.confidence_threshold, in percent
    allowed_class_names,  \* YOLOv8Engine.allowed_class_names
    op,                 \* the last engine call: its name, result and what it saw
    load_attempted,     \* whether load_model was ever called
    \* ---- the threads that use the DetectionStateManager ----
    lock,               \* DetectionStateManager._lock: "free" or its holder
    pc,                 \* every thread's position
    arg,                \* the arguments of every thread's set_state call
    rd,                 \* what every thread has read so far
    last_args,          \* the arguments of the last set_state call to take the lock
    written,            \* the (state, message) pairs stored together so far
    emitted,            \* the signals the running ModelLoaderThread has emitted
    delivered,          \* how many of them the main flow has handled
    \* ---- MainWindow / VideoDisplayWidget ----
    is_detecting,       \* MainWindow.is_detecting
    model_loading,      \* MainWindow.model_loading
    window_set,         \* MainWindow.current_set: "None" or "set"
    video_source,       \* whether MainWindow.current_video_source is set
    is_playing,         \* VideoDisplayWidget.is_playing
    gui_pc,             \* where the main flow is: "idle" or in a modal dialog
    n_frames,           \* how many frames the video timer has delivered
    stopped,            \* stop_detection ran and no start_detection succeeded since
    gui_op,             \* the last handler of the window and what it did
    \* ---- BrickListWidget and the LegoSet it shows ----
    list_found,         \* Brick.found_quantity of every brick of the widget's set
    pending_detections, \* BrickListState.pending_detections
    detected_bricks,    \* BrickListState.detected_bricks
    is_detected,        \* BrickListItem._is_detected of every item
    list_op,            \* the last call on the widget or its set and what it met
    \* ---- ImageCache ----
    cache,              \* ImageCache._cache: its keys, least recently used first
    cache_op,           \* the last get_image call and what it met
    \* ---- the manual marks of the bricks of the detector's set ----
    manually_marked,    \* Brick.manually_marked of every brick of the set
    \* ---- unload_model and infer called on two threads ----
    race_pc,            \* where the unload_model call and the infer call are
    infer_raw,          \* the boxes the model returned to the infer call
    infer_ret           \* how the infer call ended: a list returned or an exception

detVars  == <<current_set, found_quantity, color_threshold, detection_history,
              det_ret, nCalls, nPushes, pushed, det_call>>
engVars  == <<model, device, fallback_attempted, last_detections,
              confidence_threshold, allowed_class_names, op, load_attempted>>
stateVars == <<state, error_message>>
lockVars == <<lock, pc, arg, rd, last_args, written, emitted, delivered>>
guiVars  == <<is_detecting, model_loading, window_set, video_source, is_playing,
              gui_pc, n_frames, stopped, gui_op>>
listVars == <<list_found, pending_detections, detected_bricks, is_detected, list_op>>
cacheVars == <<cache, cache_op>>
markVars == <<manually_marked>>
raceVars == <<race_pc, infer_raw, infer_ret>>
restVars == <<listVars, cacheVars, markVars, raceVars>>
vars     == <<detVars, stateVars, engVars, lockVars, call, guiVars, restVars>>

None  == "None"          \* None, where the value is otherwise a string
NoneRec == [none |-> TRUE] \* None, where the value is otherwise a record
NoCenter == <<>>          \* center_point = None
ValueError == [raised |-> "ValueError"]
Raised == [raised |-> "Exception"]  \* any other exception, on its way up
Unset == -1               \* an attribute that was never assigned

(***************************************************************************)
(* Bounds of the exploration.                                              *)
(***************************************************************************)
MaxCalls == 4      \* detect_bricks calls per run
MaxInvocations == 3 \* invocations of the model followed within one infer call
MaxWindowCalls == 11 \* detect_bricks calls per run of SpecWindow
MaxNmsLen == 3      \* detections chosen freely in an input of _filter_detections
FillerLen == 9      \* separate detections added to such an input
MaxToggles == 3     \* ACTIVE -> READY -> ACTIVE toggles followed in a row
MaxFrames == 4      \* frames the video timer delivers per run of SpecGui
ConfMargin == 2     \* how far below 0.0 and above 1.0 the confidences tried go, in percent

(***************************************************************************)
(* Program constants.                                                      *)
(***************************************************************************)
HistorySize == 10          \* frames kept in detection_history
StableWindow == 3          \* frames get_stable_detections looks at
StableQuorum == 2          \* detections an identity needs to be stable
MaxDetections == 10        \* detections kept per frame
MinContourArea == 500      \* _analyze_contour area floor
MaxContourArea == 50000    \* _analyze_contour area ceiling
MinRoiSize == 100          \* match_brick_color roi.size floor
MaxBricksChecked == 20     \* match_brick_color scan cap
MinConfidencePct == 30     \* _analyze_contour: confidence < 0.3 is rejected
DefaultColorThreshold == 30 \* DetectionParams.color_threshold
IoUNum == 3                \* _bboxes_overlap threshold 0.3 = IoUNum / IoUDen
IoUDen == 10
DefaultConfidencePct == 50 \* YOLOv8Engine confidence_threshold default 0.5
MaxDist2 == 195075         \* (255 * sqrt(3)) ^ 2, the largest squared distance

(***************************************************************************)
(* LegoSet / Brick: the set the detector is configured with.               *)
(***************************************************************************)
Bricks ==
    << [part_number |-> "3005", color |-> "Red",  quantity |-> 1],
       [part_number |-> "3004", color |-> "Blue", quantity |-> 1] >>

PartNumbers == {Bricks[i].part_number : i \in 1..Len(Bricks)}

\* is_fully_found asking for more than the quantity
IsFullyFoundStrict(brick, found) == found[brick.part_number] > brick.quantity

\* Brick.is_fully_found
IsFullyFound(brick, found) == found[brick.part_number] >= brick.quantity

\* ColorMatcher.LEGO_COLORS (RGB)
LEGO_COLORS ==
    [black |-> <<0, 0, 0>>, white |-> <<255, 255, 255>>, red |-> <<255, 0, 0>>,
     blue |-> <<0, 0, 255>>, green |-> <<0, 255, 0>>, yellow |-> <<255, 255, 0>>,
     orange |-> <<255, 165, 0>>, purple |-> <<128, 0, 128>>,
     pink |-> <<255, 192, 203>>, brown |-> <<165, 42, 42>>,
     gray |-> <<128, 128, 128>>, light_gray |-> <<211, 211, 211>>,
     dark_gray |-> <<64, 64, 64>>, lime |-> <<50, 205, 50>>,
     cyan |-> <<0, 255, 255>>, magenta |-> <<255, 0, 255>>,
     tan |-> <<210, 180, 140>>, dark_blue |-> <<0, 0, 139>>,
     bright_green |-> <<0, 255, 127>>]

\* The keywords _get_brick_color_name looks for, in its order, and for each
\* catalog colour the keywords its lower-cased name contains.
ColorKeywords == <<"black", "white", "red", "blue", "green", "yellow", "orange", "gray">>
NameContains ==
    [Red |-> {"red"}, Blue |-> {"blue"}, Tan |-> {}]

\* ColorMatcher._get_brick_color_name: the first keyword found, else 'red'
GetBrickColorName(brick) ==
    LET hits == {i \in 1..Len(ColorKeywords) : ColorKeywords[i] \in NameContains[brick.color]}
    IN  IF hits = {} THEN "red"
        ELSE ColorKeywords[CHOOSE i \in hits : \A j \in hits : i <= j]

(***************************************************************************)
(* A frame is what the detector sees of it: the contours                   *)
(* find_brick_contours returns, each with its bounding box, its area and   *)
(* the (uniform) colour of its region, in RGB.                             *)
(***************************************************************************)
RedAt0    == [bbox |-> <<0, 0, 40, 40>>,   area |-> 1600, rgb |-> <<255, 0, 0>>]
RedAt100  == [bbox |-> <<100, 0, 40, 40>>, area |-> 1600, rgb |-> <<255, 0, 0>>]
BlueAt10  == [bbox |-> <<10, 10, 40, 40>>, area |-> 1600, rgb |-> <<0, 0, 255>>]
GreenAt200 == [bbox |-> <<200, 0, 40, 40>>, area |-> 1600, rgb |-> <<0, 255, 0>>]

Frames ==
    { <<>>, <<GreenAt200>>, <<RedAt0>>, <<BlueAt10>>, <<RedAt0, RedAt100>>,
      <<RedAt0, BlueAt10>>, <<BlueAt10, RedAt100>> }

\* What OpenCV refuses: a frame it cannot convert, and a region whose pixels
\* it cannot read
BadFrame == << [unreadable |-> TRUE] >>
BrokenAt300 == [bbox |-> <<300, 0, 40, 40>>, area |-> 1600, rgb |-> <<>>]

\* the frames and the regions of the runs in which something fails
FaultFrames == { BadFrame, <<BrokenAt300, RedAt100>>, <<BlueAt10>>, <<>> }
FaultRegions == { BrokenAt300, RedAt0, GreenAt200 }

\* ContourAnalyzer.find_brick_contours, as far as the detector sees it: the
\* contours of the frame, or [] from the except branch when cv2 raises
FindBrickContours(frame) == IF frame = BadFrame THEN <<>> ELSE frame

\* ColorMatcher._extract_dominant_color: cv2.mean and the HSV path both return
\* the channels in the frame's order, BGR
ExtractDominantColor(contour) ==
    <<contour.rgb[3], contour.rgb[2], contour.rgb[1]>>

\* on a region cv2 cannot read, _extract_dominant_color raises: so does the
\* fallback of its except branch (cv2.mean again)
ExtractRaises(contour) == contour.rgb = <<>>

\* The squared Euclidean distance of _calculate_color_similarity
Dist2(c1, c2) ==
    (c1[1] - c2[1]) * (c1[1] - c2[1]) + (c1[2] - c2[2]) * (c1[2] - c2[2])
    + (c1[3] - c2[3]) * (c1[3] - c2[3])

\* ColorMatcher._calculate_color_similarity, 1 - distance / (255 * sqrt(3)),
\* in whole percent (rounded down)
CalculateColorSimilarity(c1, c2) ==
    LET d2 == Dist2(c1, c2)
        \* k = ceiling(100 * sqrt(d2 / MaxDist2))
        k  == CHOOSE n \in 0..100 :
                /\ n * n * MaxDist2 >= 10000 * d2
                /\ n = 0 \/ (n - 1) * (n - 1) * MaxDist2 < 10000 * d2
    IN  100 - k

\* similarity(d2a) > similarity(d2b), exactly: the similarity falls as d2 grows
SimilarityGreater(d2a, d2b) == d2a < d2b

\* similarity(d2) > threshold / 255.0, exactly:
\* 1 - sqrt(d2) / (255 sqrt 3) > t / 255  iff  d2 < 3 (255 - t)^2, for t < 255
AboveThreshold(d2, threshold) ==
    /\ threshold < 255
    /\ d2 < 3 * (255 - threshold) * (255 - threshold)

\* bricks_to_check = [b for b in current_bricks if not b.is_fully_found()]
BricksToCheck(found) ==
    SelectSeq(Bricks, LAMBDA b : ~IsFullyFound(b, found))

\* the loop of match_brick_color over bricks_to_check[:20]: best is None or
\* the best ColorMatch so far, bestD2 the squared distance of best_confidence
RECURSIVE BestMatch(_, _, _, _, _)
BestMatch(bricks, i, dominant, best, bestD2) ==
    IF i > Len(bricks) \/ i > MaxBricksChecked THEN best
    ELSE LET brick == bricks[i]
             name  == GetBrickColorName(brick)
             target == LEGO_COLORS[name]
             d2    == Dist2(dominant, target)
         IN  IF name \in DOMAIN LEGO_COLORS /\ SimilarityGreater(d2, bestD2)
             THEN BestMatch(bricks, i + 1, dominant,
                            [brick_id |-> brick.part_number, color_name |-> name,
                             confidence |-> CalculateColorSimilarity(dominant, target),
                             rgb_values |-> target],
                            d2)
             ELSE BestMatch(bricks, i + 1, dominant, best, bestD2)

\* match_brick_color without its except branch
MatchBrickColorUncaught(contour, found, threshold) ==
    LET roiSize  == contour.bbox[3] * contour.bbox[4] * 3
        dominant == ExtractDominantColor(contour)
        toCheck  == BricksToCheck(found)
        best     == BestMatch(toCheck, 1, dominant, NoneRec, MaxDist2)
    IN  IF roiSize < MinRoiSize THEN NoneRec
        ELSE IF ExtractRaises(contour) THEN Raised
        ELSE IF Len(toCheck) = 0 THEN NoneRec
        ELSE IF threshold = Unset THEN Raised
        ELSE IF best # NoneRec /\ AboveThreshold(Dist2(dominant, best.rgb_values), threshold)
             THEN best
             ELSE NoneRec

\* ColorMatcher.match_brick_color: NoneRec, or the ColorMatch returned. Reading
\* color_threshold before set_params raises AttributeError, which the method
\* catches and answers with None.
MatchBrickColor(contour, found, threshold) ==
    LET roiSize  == contour.bbox[3] * contour.bbox[4] * 3
        dominant == ExtractDominantColor(contour)
        toCheck  == BricksToCheck(found)
        best     == BestMatch(toCheck, 1, dominant, NoneRec, MaxDist2)
    IN  IF roiSize < MinRoiSize THEN NoneRec
        ELSE IF ExtractRaises(contour) THEN NoneRec
        ELSE IF Len(toCheck) = 0 THEN NoneRec
        ELSE IF threshold = Unset THEN NoneRec
        ELSE IF best # NoneRec /\ AboveThreshold(Dist2(dominant, best.rgb_values), threshold)
             THEN best
             ELSE NoneRec

\* a DetectionResult that refuses the confidences 0.0 and 1.0
DetectionResultOpenInterval(brick_id, bbox, confidence, center_point, color) ==
    IF ~(0 < confidence /\ confidence < 100) THEN ValueError
    ELSE IF Len(bbox) # 4 THEN ValueError
    ELSE [brick_id |-> brick_id, bbox |-> bbox, confidence |-> confidence,
          center_point |-> IF center_point = NoCenter
                           THEN <<bbox[1] + (bbox[3] \div 2), bbox[2] + (bbox[4] \div 2)>>
                           ELSE center_point,
          color |-> color]

\* a DetectionResult that computes its centre whether or not it is given one
DetectionResultOwnCenter(brick_id, bbox, confidence, center_point, color) ==
    IF ~(0 <= confidence /\ confidence <= 100) THEN ValueError
    ELSE IF Len(bbox) # 4 THEN ValueError
    ELSE [brick_id |-> brick_id, bbox |-> bbox, confidence |-> confidence,
          center_point |-> <<bbox[1] + (bbox[3] \div 2), bbox[2] + (bbox[4] \div 2)>>,
          color |-> color]

\* DetectionResult.__post_init__: "ValueError", or the result with its
\* center point filled in (confidence in percent)
DetectionResult(brick_id, bbox, confidence, center_point, color) ==
    IF ~(0 <= confidence /\ confidence <= 100) THEN ValueError
    ELSE IF Len(bbox) # 4 THEN ValueError
    ELSE [brick_id |-> brick_id, bbox |-> bbox, confidence |-> confidence,
          center_point |-> IF center_point = NoCenter
                           THEN <<bbox[1] + (bbox[3] \div 2), bbox[2] + (bbox[4] \div 2)>>
                           ELSE center_point,
          color |-> color]

\* BrickDetector._analyze_contour: None or a DetectionResult
AnalyzeContour(contour, found, threshold) ==
    LET x == contour.bbox[1]
        y == contour.bbox[2]
        w == contour.bbox[3]
        h == contour.bbox[4]
        \* 0.5 <= w / h <= 3.0, with the ratio 0 when h = 0
        ratio_ok == h > 0 /\ 2 * w >= h /\ w <= 3 * h
        color_match == MatchBrickColor(contour, found, threshold)
    IN  IF contour.area < MinContourArea \/ contour.area > MaxContourArea THEN NoneRec
        ELSE IF ~ratio_ok THEN NoneRec
        ELSE IF w * h * 3 = 0 THEN NoneRec
        ELSE IF color_match = Raised THEN NoneRec
        ELSE IF color_match = NoneRec THEN NoneRec
        ELSE IF color_match.confidence < MinConfidencePct THEN NoneRec
        ELSE LET d == DetectionResult(color_match.brick_id, <<x, y, w, h>>,
                                      color_match.confidence,
                                      <<x + (w \div 2), y + (h \div 2)>>,
                                      color_match.color_name)
             IN  IF d = ValueError THEN NoneRec ELSE d

\* BrickDetector._bboxes_overlap with threshold = 0.3: IoU > 0.3, in integers
BboxesOverlap(bbox1, bbox2) ==
    LET x_left   == IF bbox1[1] > bbox2[1] THEN bbox1[1] ELSE bbox2[1]
        y_top    == IF bbox1[2] > bbox2[2] THEN bbox1[2] ELSE bbox2[2]
        r1       == bbox1[1] + bbox1[3]
        r2       == bbox2[1] + bbox2[3]
        b1       == bbox1[2] + bbox1[4]
        b2       == bbox2[2] + bbox2[4]
        x_right  == IF r1 < r2 THEN r1 ELSE r2
        y_bottom == IF b1 < b2 THEN b1 ELSE b2
        intersection_area == (x_right - x_left) * (y_bottom - y_top)
        union_area == bbox1[3] * bbox1[4] + bbox2[3] * bbox2[4] - intersection_area
    IN  IF x_right < x_left \/ y_bottom < y_top THEN FALSE
        ELSE IF union_area > 0
             THEN IoUDen * intersection_area > IoUNum * union_area
             ELSE FALSE

\* list.sort(key=confidence, reverse=True): a stable sort, highest first
RECURSIVE InsertByConfidence(_, _)

\* a sort that puts a detection before the earlier ones of its confidence
InsertByConfidenceBeforeTies(sorted, d) ==
    IF sorted = <<>> THEN <<d>>
    ELSE IF Head(sorted).confidence > d.confidence
         THEN <<Head(sorted)>> \o InsertByConfidence(Tail(sorted), d)
         ELSE <<d>> \o sorted

InsertByConfidence(sorted, d) ==
    IF sorted = <<>> THEN <<d>>
    ELSE IF Head(sorted).confidence >= d.confidence
         THEN <<Head(sorted)>> \o InsertByConfidence(Tail(sorted), d)
         ELSE <<d>> \o sorted

RECURSIVE SortByConfidence(_)
SortByConfidence(dets) ==
    IF dets = <<>> THEN <<>>
    ELSE InsertByConfidence(SortByConfidence(SubSeq(dets, 1, Len(dets) - 1)),
                            dets[Len(dets)])

\* the suppression loop of _filter_detections
RECURSIVE Suppress(_, _)
Suppress(dets, filtered) ==
    IF dets = <<>> THEN filtered
    ELSE LET detection == Head(dets)
             overlap == \E i \in 1..Len(filtered) :
                            BboxesOverlap(detection.bbox, filtered[i].bbox)
         IN  Suppress(Tail(dets),
                      IF overlap THEN filtered ELSE Append(filtered, detection))

\* _filter_detections without its sort
FilterDetectionsUnsorted(dets) ==
    IF dets = <<>> THEN <<>>
    ELSE LET filtered == Suppress(dets, <<>>)
         IN  SubSeq(filtered, 1, IF Len(filtered) < MaxDetections
                                 THEN Len(filtered) ELSE MaxDetections)

\* _filter_detections sorting lowest confidence first
FilterDetectionsAscending(dets) ==
    IF dets = <<>> THEN <<>>
    ELSE LET desc == SortByConfidence(dets)
             asc  == [i \in 1..Len(desc) |-> desc[Len(desc) + 1 - i]]
             filtered == Suppress(asc, <<>>)
         IN  SubSeq(filtered, 1, IF Len(filtered) < MaxDetections
                                 THEN Len(filtered) ELSE MaxDetections)

\* BrickDetector._filter_detections
FilterDetections(dets) ==
    IF dets = <<>> THEN <<>>
    ELSE LET filtered == Suppress(SortByConfidence(dets), <<>>)
         IN  SubSeq(filtered, 1, IF Len(filtered) < MaxDetections
                                 THEN Len(filtered) ELSE MaxDetections)

\* _update_history dropping the newest list of a full window
UpdateHistoryEvictNewest(history, dets) ==
    LET appended == Append(history, dets)
    IN  IF Len(appended) > HistorySize THEN SubSeq(appended, 1, HistorySize)
        ELSE appended

\* BrickDetector._update_history
UpdateHistory(history, dets) ==
    LET appended == Append(history, dets)
    IN  IF Len(appended) > HistorySize THEN Tail(appended) ELSE appended

\* history[-3:]
LastFrames(history) ==
    SubSeq(history, IF Len(history) > StableWindow
                    THEN Len(history) - StableWindow + 1 ELSE 1, Len(history))

\* the detections of the frames, in frame order then list order
RECURSIVE Flatten(_)
Flatten(frames) ==
    IF frames = <<>> THEN <<>> ELSE Head(frames) \o Flatten(Tail(frames))

\* brick_counts.items(): the identities in the order of their first detection,
\* each once
RECURSIVE KeysInOrder(_, _)
KeysInOrder(dets, seen) ==
    IF dets = <<>> THEN <<>>
    ELSE IF Head(dets).brick_id \in seen THEN KeysInOrder(Tail(dets), seen)
    ELSE <<Head(dets).brick_id>>
         \o KeysInOrder(Tail(dets), seen \cup {Head(dets).brick_id})

\* get_stable_detections without its minimum of 3 frames
GetStableDetectionsNoMinimum(history) ==
    LET all  == Flatten(LastFrames(history))
        keys == KeysInOrder(all, {})
        of(k) == SelectSeq(all, LAMBDA d : d.brick_id = k)
        stable == SelectSeq(keys, LAMBDA k : Len(of(k)) >= StableQuorum)
    IN  [i \in 1..Len(stable) |-> of(stable[i])[Len(of(stable[i]))]]

\* get_stable_detections answering with the oldest detection of an identity
GetStableDetectionsOldest(history) ==
    IF Len(history) < StableWindow THEN <<>>
    ELSE LET all  == Flatten(LastFrames(history))
             keys == KeysInOrder(all, {})
             of(k) == SelectSeq(all, LAMBDA d : d.brick_id = k)
             stable == SelectSeq(keys, LAMBDA k : Len(of(k)) >= StableQuorum)
         IN  [i \in 1..Len(stable) |-> of(stable[i])[1]]

\* BrickDetector.get_stable_detections
GetStableDetections(history) ==
    IF Len(history) < StableWindow THEN <<>>
    ELSE LET all  == Flatten(LastFrames(history))
             keys == KeysInOrder(all, {})
             of(k) == SelectSeq(all, LAMBDA d : d.brick_id = k)
             stable == SelectSeq(keys, LAMBDA k : Len(of(k)) >= StableQuorum)
         IN  [i \in 1..Len(stable) |-> of(stable[i])[Len(of(stable[i]))]]

(***************************************************************************)
(* The classic detector, called frame by frame.                            *)
(***************************************************************************)
\* BrickDetector.__init__, ColorMatcher.__init__ and a freshly loaded LegoSet
DetInit ==
    /\ current_set = None
    /\ found_quantity = [p \in PartNumbers |-> 0]
    /\ color_threshold = Unset
    /\ detection_history = <<>>
    /\ det_ret = <<>>
    /\ nCalls = 0
    /\ nPushes = 0
    /\ pushed = <<>>
    /\ det_call = NoneRec

\* BrickDetector.set_lego_set
SetLegoSet ==
    /\ current_set' = "set"
    /\ UNCHANGED <<found_quantity, color_threshold, detection_history, det_ret,
                   nCalls, nPushes, pushed, det_call>>
    /\ UNCHANGED <<stateVars, engVars, lockVars, call, guiVars, restVars>>

\* ColorMatcher.set_params
SetParams(threshold) ==
    /\ color_threshold' = threshold
    /\ UNCHANGED <<current_set, found_quantity, detection_history, det_ret,
                   nCalls, nPushes, pushed, det_call>>
    /\ UNCHANGED <<stateVars, engVars, lockVars, call, guiVars, restVars>>

\* LegoSet.mark_brick_found(part_number, 1)
MarkBrickFound(part_number) ==
    /\ \E i \in 1..Len(Bricks) :
          /\ Bricks[i].part_number = part_number
          /\ found_quantity[part_number] + 1 <= Bricks[i].quantity
    /\ found_quantity' = [found_quantity EXCEPT ![part_number] = @ + 1]
    /\ UNCHANGED <<current_set, color_threshold, detection_history, det_ret,
                   nCalls, nPushes, pushed, det_call>>
    /\ UNCHANGED <<stateVars, engVars, lockVars, call, guiVars, restVars>>

\* LegoSet.unmark_brick_found(part_number, 1)
UnmarkBrickFound(part_number) ==
    /\ found_quantity[part_number] - 1 >= 0
    /\ found_quantity' = [found_quantity EXCEPT ![part_number] = @ - 1]
    /\ UNCHANGED <<current_set, color_threshold, detection_history, det_ret,
                   nCalls, nPushes, pushed, det_call>>
    /\ UNCHANGED <<stateVars, engVars, lockVars, call, guiVars, restVars>>

\* Steps 2 of detect_bricks: the detections of the contours, in contour
\* order, that name a brick of the set which is not fully found
RECURSIVE AnalyzeAll(_, _, _)
AnalyzeAll(contours, found, threshold) ==
    IF contours = <<>> THEN <<>>
    ELSE LET detection == AnalyzeContour(Head(contours), found, threshold)
             rest == AnalyzeAll(Tail(contours), found, threshold)
             keep == /\ detection # NoneRec
                     /\ \E i \in 1..Len(Bricks) :
                           /\ Bricks[i].part_number = detection.brick_id
                           /\ ~IsFullyFound(Bricks[i], found)
         IN  IF keep THEN <<detection>> \o rest ELSE rest

\* BrickDetector.detect_bricks: what it does to the detector
DetectBricksBody(frame) ==
    IF current_set = None
    THEN /\ det_ret' = <<>>
         /\ det_call' = [frame |-> frame, found |-> found_quantity,
                          threshold |-> color_threshold, entered |-> <<>>,
                          configured |-> FALSE]
         /\ UNCHANGED <<current_set, found_quantity, color_threshold,
                        detection_history, nCalls, nPushes, pushed>>
    ELSE LET contours == FindBrickContours(frame)
             detections == AnalyzeAll(contours, found_quantity, color_threshold)
             filtered_detections == FilterDetections(detections)
         IN  /\ nCalls' = nCalls + 1
             /\ det_call' = [frame |-> frame, found |-> found_quantity,
                              threshold |-> color_threshold,
                              entered |-> detections, configured |-> TRUE]
             /\ IF contours = <<>>
                THEN /\ det_ret' = <<>>
                     /\ UNCHANGED <<detection_history, nPushes, pushed>>
                ELSE /\ detection_history' = UpdateHistory(detection_history, filtered_detections)
                     /\ nPushes' = nPushes + 1
                     /\ pushed' = Append(pushed, filtered_detections)
                     /\ det_ret' = filtered_detections
             /\ UNCHANGED <<current_set, found_quantity, color_threshold>>

\* BrickDetector.detect_bricks, called on its own
DetectBricks(frame) ==
    /\ DetectBricksBody(frame)
    /\ UNCHANGED <<stateVars, engVars, lockVars, call, guiVars, restVars>>

ColorThresholds == {DefaultColorThreshold}

NextDetector ==
    \/ SetLegoSet
    \/ \E t \in ColorThresholds : SetParams(t)
    \/ \E p \in PartNumbers : MarkBrickFound(p)
    \/ \E p \in PartNumbers : UnmarkBrickFound(p)
    \/ \E f \in Frames : nCalls < MaxCalls /\ DetectBricks(f)

\* The frames of a long run: one brick, seen at two places
WindowFrames == { <<RedAt0>>, <<RedAt100>> }

\* The detector run long enough to fill its window
NextWindow ==
    \/ SetLegoSet
    \/ SetParams(DefaultColorThreshold)
    \/ \E f \in WindowFrames : nCalls < MaxWindowCalls /\ DetectBricks(f)

(***************************************************************************)
(* _filter_detections called on its own, on lists of DetectionResults.     *)
(***************************************************************************)
\* Detections to build the lists from. E overlaps A, A overlaps B, E and B do
\* not overlap (IoU 1/7); C and D share a box far from the others. A, B and C
\* have the same confidence.
NmsPool ==
    { DetectionResult("3005", <<0, 0, 40, 40>>,   90, NoCenter, "red"),
      DetectionResult("3004", <<15, 0, 40, 40>>,  50, NoCenter, "blue"),
      DetectionResult("3005", <<30, 0, 40, 40>>,  50, NoCenter, "red"),
      DetectionResult("3004", <<200, 0, 40, 40>>, 50, NoCenter, "blue"),
      DetectionResult("3005", <<200, 0, 40, 40>>, 70, NoCenter, "red") }

\* n detections of one confidence, apart from each other and from the pool
Filler(n) ==
    [i \in 1..n |->
        DetectionResult("3004", <<50 * (i - 1), 100, 40, 40>>, 60, NoCenter, "blue")]

\* the lists given to _filter_detections: up to MaxNmsLen detections of the
\* pool in any order, alone or with the filler before or after them
NmsInputs ==
    LET free == UNION { [1..k -> NmsPool] : k \in 0..MaxNmsLen }
    IN  free \cup { Filler(FillerLen) \o s : s \in free }
             \cup { s \o Filler(FillerLen) : s \in free }

\* a list about to be given to _filter_detections
Pending(detections) == [fn |-> "pending", arg |-> detections]

\* _filter_detections(detections)
FilterDetectionsCall ==
    /\ call.fn = "pending"
    /\ call' = [fn |-> "_filter_detections", arg |-> call.arg,
                ret |-> FilterDetections(call.arg), again |-> FALSE,
                first |-> call.arg]
    /\ UNCHANGED <<detVars, stateVars, engVars, lockVars, guiVars, restVars>>

\* _filter_detections called on the list its last call returned
FilterAgain ==
    /\ call.fn = "_filter_detections"
    /\ ~call.again
    /\ call' = [fn |-> "_filter_detections", arg |-> call.ret,
                ret |-> FilterDetections(call.ret), again |-> TRUE,
                first |-> call.arg]
    /\ UNCHANGED <<detVars, stateVars, engVars, lockVars, guiVars, restVars>>

NextNms ==
    \/ FilterDetectionsCall
    \/ FilterAgain

(***************************************************************************)
(* The neural engine: YOLOv8Engine with its DetectionStateManager, called  *)
(* from one thread.                                                        *)
(***************************************************************************)
OFF     == "off"
LOADING == "loading"
READY   == "ready"
ACTIVE  == "active"
ERROR   == "error"
DetectionState == {OFF, LOADING, READY, ACTIVE, ERROR}

\* the messages load_model builds (each a non-empty string)
MsgNotFound  == "Model file not found: path"
MsgNoRuntime == "ultralytics package not installed. Run: pip install ultralytics"
MsgFailed    == "Failed to load model: reason"

\* What a load meets: does the file exist, does ultralytics import, does
\* YOLO(path) construct, does model.to(device) succeed, does model.to("cpu")
LoadEnvs ==
    { [exists |-> FALSE, import_ok |-> TRUE,  construct_ok |-> TRUE,  place_ok |-> TRUE,  cpu_ok |-> TRUE],
      [exists |-> TRUE,  import_ok |-> FALSE, construct_ok |-> TRUE,  place_ok |-> TRUE,  cpu_ok |-> TRUE],
      [exists |-> TRUE,  import_ok |-> TRUE,  construct_ok |-> FALSE, place_ok |-> TRUE,  cpu_ok |-> TRUE],
      [exists |-> TRUE,  import_ok |-> TRUE,  construct_ok |-> TRUE,  place_ok |-> FALSE, cpu_ok |-> FALSE],
      [exists |-> TRUE,  import_ok |-> TRUE,  construct_ok |-> TRUE,  place_ok |-> FALSE, cpu_ok |-> TRUE],
      [exists |-> TRUE,  import_ok |-> TRUE,  construct_ok |-> TRUE,  place_ok |-> TRUE,  cpu_ok |-> TRUE] }

\* DetectionStateManager.__init__ and YOLOv8Engine.__init__
EngInit ==
    /\ state = LOADING
    /\ error_message = None
    /\ model = None
    /\ device \in {"cuda", "cpu"}
    /\ fallback_attempted = FALSE
    /\ last_detections = <<>>
    /\ confidence_threshold = DefaultConfidencePct
    /\ allowed_class_names = NoneRec
    /\ op = [name |-> "init"]
    /\ load_attempted = FALSE

\* set_state keeping the old message when it is given none
SetStateKeepMessage(new_state, error_msg) ==
    /\ state' = new_state
    /\ error_message' = IF error_msg = None THEN error_message ELSE error_msg

\* DetectionStateManager.set_state, taken as one step (the body runs under
\* the lock)
SetState(new_state, error_msg) ==
    /\ state' = new_state
    /\ error_message' = error_msg

\* load_model reporting a missing file without its message
LoadResultNoMessage(env) ==
    IF ~env.exists
    THEN [ret |-> FALSE, state |-> ERROR, msg |-> None, model |-> model, device |-> device]
    ELSE IF ~env.import_ok
    THEN [ret |-> FALSE, state |-> ERROR, msg |-> MsgNoRuntime, model |-> model, device |-> device]
    ELSE IF ~env.construct_ok
    THEN [ret |-> FALSE, state |-> ERROR, msg |-> MsgFailed, model |-> model, device |-> device]
    ELSE IF env.place_ok
    THEN [ret |-> TRUE, state |-> READY, msg |-> None, model |-> "yolo", device |-> device]
    ELSE IF env.cpu_ok
    THEN [ret |-> TRUE, state |-> READY, msg |-> None, model |-> "yolo", device |-> "cpu"]
    ELSE [ret |-> FALSE, state |-> ERROR, msg |-> MsgFailed, model |-> "yolo", device |-> device]

\* load_model giving up when the model cannot be placed on the preferred device
LoadResultNoFallback(env) ==
    IF ~env.exists
    THEN [ret |-> FALSE, state |-> ERROR, msg |-> MsgNotFound, model |-> model, device |-> device]
    ELSE IF ~env.import_ok
    THEN [ret |-> FALSE, state |-> ERROR, msg |-> MsgNoRuntime, model |-> model, device |-> device]
    ELSE IF ~env.construct_ok
    THEN [ret |-> FALSE, state |-> ERROR, msg |-> MsgFailed, model |-> model, device |-> device]
    ELSE IF env.place_ok
    THEN [ret |-> TRUE, state |-> READY, msg |-> None, model |-> "yolo", device |-> device]
    ELSE [ret |-> FALSE, state |-> ERROR, msg |-> MsgFailed, model |-> "yolo", device |-> device]

\* YOLOv8Engine.load_model: what it returns and leaves, for what it meets
LoadResult(env) ==
    IF ~env.exists
    THEN [ret |-> FALSE, state |-> ERROR, msg |-> MsgNotFound, model |-> model, device |-> device]
    ELSE IF ~env.import_ok
    THEN [ret |-> FALSE, state |-> ERROR, msg |-> MsgNoRuntime, model |-> model, device |-> device]
    ELSE IF ~env.construct_ok
    THEN [ret |-> FALSE, state |-> ERROR, msg |-> MsgFailed, model |-> model, device |-> device]
    ELSE IF env.place_ok
    THEN [ret |-> TRUE, state |-> READY, msg |-> None, model |-> "yolo", device |-> device]
    ELSE IF env.cpu_ok
    THEN [ret |-> TRUE, state |-> READY, msg |-> None, model |-> "yolo", device |-> "cpu"]
    ELSE [ret |-> FALSE, state |-> ERROR, msg |-> MsgFailed, model |-> "yolo", device |-> device]

\* YOLOv8Engine.load_model. op records the state in force while the load ran
\* (load_model writes the state once, at its end) and the states it wrote.
LoadModel(env) ==
    LET r == LoadResult(env)
    IN  /\ SetState(r.state, r.msg)
        /\ model' = r.model
        /\ device' = r.device
        /\ load_attempted' = TRUE
        /\ op' = [name |-> "load_model", ret |-> r.ret, exists |-> env.exists,
                  during |-> state, wrote |-> <<r.state>>, env |-> env]
        /\ UNCHANGED <<fallback_attempted, last_detections, confidence_threshold,
                       allowed_class_names>>
        /\ UNCHANGED <<detVars, lockVars, call, guiVars, restVars>>

\* YOLOv8Engine.unload_model
UnloadModel ==
    /\ IF model # None
       THEN /\ model' = None
            /\ SetState(OFF, None)
       ELSE UNCHANGED <<model, state, error_message>>
    /\ op' = [name |-> "unload_model"]
    /\ UNCHANGED <<device, fallback_attempted, last_detections, confidence_threshold,
                   allowed_class_names, load_attempted>>
    /\ UNCHANGED <<detVars, lockVars, call, guiVars, restVars>>

\* The toggle of the surrounding application: engine.set_state(ACTIVE) when
\* READY, engine.set_state(READY) when ACTIVE
\* the fields of the engine other than the lifecycle state and its message
OtherFields ==
    [model |-> model, confidence_threshold |-> confidence_threshold,
     allowed_class_names |-> allowed_class_names, last_detections |-> last_detections,
     fallback_attempted |-> fallback_attempted, device |-> device]

\* op counts the toggles made in a row from ACTIVE back to ACTIVE and keeps
\* the fields as they were before the first of them
Enable ==
    /\ state = READY
    /\ SetState(ACTIVE, None)
    /\ op' = IF op.name = "disable"
             THEN [name |-> "enable", n |-> op.n + 1, before |-> op.before]
             ELSE [name |-> "enable", n |-> 0, before |-> OtherFields]
    /\ UNCHANGED <<model, device, fallback_attempted, last_detections,
                   confidence_threshold, allowed_class_names, load_attempted>>
    /\ UNCHANGED <<detVars, lockVars, call, guiVars, restVars>>

Disable ==
    /\ state = ACTIVE
    /\ op.name = "enable" => op.n < MaxToggles
    /\ SetState(READY, None)
    /\ op' = IF op.name = "enable"
             THEN [name |-> "disable", n |-> op.n, before |-> op.before]
             ELSE [name |-> "disable", n |-> 0, before |-> OtherFields]
    /\ UNCHANGED <<model, device, fallback_attempted, last_detections,
                   confidence_threshold, allowed_class_names, load_attempted>>
    /\ UNCHANGED <<detVars, lockVars, call, guiVars, restVars>>

\* YOLOv8Engine.set_confidence_threshold: max(0.0, min(1.0, float(threshold)))
SetConfidenceThreshold(threshold) ==
    /\ confidence_threshold' = IF threshold < 0 THEN 0
                               ELSE IF threshold > 100 THEN 100 ELSE threshold
    /\ op' = [name |-> "set_confidence_threshold", arg |-> threshold]
    /\ UNCHANGED <<state, error_message, model, device, fallback_attempted,
                   last_detections, allowed_class_names, load_attempted>>
    /\ UNCHANGED <<detVars, lockVars, call, guiVars, restVars>>

\* model.names of the loaded model, and class_name.lower() of every name
\* infer can build (a class id the model does not name gives "Class <id>")
ModelNames == (0 :> "2x4 Red Brick") @@ (1 :> "Blue Plate")
ClassName(class_id) ==
    IF class_id \in DOMAIN ModelNames THEN ModelNames[class_id] ELSE "Class 7"
Lower ==
    ("2x4 Red Brick" :> "2x4 red brick") @@ ("Blue Plate" :> "blue plate")
    @@ ("Class 7" :> "class 7")

\* str(n).strip().lower() of the names given to set_allowed_class_names
StripLower ==
    (" Red " :> "red") @@ ("Blue Plate" :> "blue plate") @@ ("  " :> "")
    @@ ("Plate 7" :> "plate 7")

\* token in name_lower (Python's substring test), for the tokens and names above
IsSubstring(token, name_lower) ==
    <<token, name_lower>> \in
        { <<"red", "2x4 red brick">>, <<"blue plate", "blue plate">> }

\* the name sets given to set_allowed_class_names
AllowLists ==
    { NoneRec, [set |-> {}], [set |-> {" Red "}], [set |-> {"Blue Plate", "  "}],
      [set |-> {"  "}], [set |-> {"Plate 7"}] }

\* YOLOv8Engine.set_allowed_class_names
SetAllowedClassNames(names) ==
    /\ allowed_class_names' =
          IF names = NoneRec \/ names.set = {} THEN NoneRec
          ELSE [set |-> {StripLower[n] : n \in {m \in names.set : StripLower[m] # ""}}]
    /\ op' = [name |-> "set_allowed_class_names", arg |-> names]
    /\ UNCHANGED <<state, error_message, model, device, fallback_attempted,
                   last_detections, confidence_threshold, load_attempted>>
    /\ UNCHANGED <<detVars, lockVars, call, guiVars, restVars>>

\* The boxes the model returns for a frame: confidence in percent, class id
RawOutputs ==
    { <<>>,
      << [conf |-> 55, cls |-> 0] >>,
      << [conf |-> 61, cls |-> 0], [conf |-> 90, cls |-> 1], [conf |-> 100, cls |-> 7] >>,
      << [conf |-> 90, cls |-> 1], [conf |-> 55, cls |-> 0], [conf |-> 61, cls |-> 0] >> }

\* the filter of infer dropping a box whose confidence is at the threshold
AcceptsAboveOnly(box, threshold, allowed) ==
    /\ box.conf > threshold
    /\ \/ allowed = NoneRec
       \/ allowed.set = {}
       \/ Lower[ClassName(box.cls)] \in allowed.set
       \/ \E token \in allowed.set : IsSubstring(token, Lower[ClassName(box.cls)])

\* the filter of infer keeping only the names that are in the allow-list
AcceptsExactNames(box, threshold, allowed) ==
    /\ ~(box.conf < threshold)
    /\ \/ allowed = NoneRec
       \/ allowed.set = {}
       \/ Lower[ClassName(box.cls)] \in allowed.set

\* the filter of infer on one box
Accepts(box, threshold, allowed) ==
    /\ ~(box.conf < threshold)
    /\ \/ allowed = NoneRec
       \/ allowed.set = {}
       \/ Lower[ClassName(box.cls)] \in allowed.set
       \/ \E token \in allowed.set : IsSubstring(token, Lower[ClassName(box.cls)])

\* the detections infer builds from the boxes, in their order
Detections(raw, threshold, allowed) ==
    LET kept == SelectSeq(raw, LAMBDA box : Accepts(box, threshold, allowed))
    IN  [i \in 1..Len(kept) |->
            [class_id |-> kept[i].cls, class_name |-> ClassName(kept[i].cls),
             confidence |-> kept[i].conf]]

\* What an invocation of the model can do: return boxes ("ok"), raise an
\* exception whose message names nms and cuda ("device_error"), raise any
\* other exception ("error"). infer tells them apart by the message alone,
\* whatever the device, and so does the model.
Outcomes == {"ok", "device_error", "error"}

\* what an infer call returns and leaves: outs are the outcomes of the
\* invocations it made, moved tells how model.to("cpu") went, raw are the
\* boxes of the invocation that succeeded (none if none did)
InferResult(ret, last, flag, dev, outs, moved, raw) ==
    [ret |-> ret, last |-> last, flag |-> flag, device |-> dev, outs |-> outs,
     moved |-> moved, raw |-> raw]

\* YOLOv8Engine.infer with a model loaded: every run the call can take, the
\* environment choosing the outcome of each invocation, the boxes of a
\* successful one and whether model.to("cpu") succeeds. outs are the
\* outcomes of the invocations made so far, flag and dev the engine's
\* _fallback_attempted and device by now. A run is followed for at most
\* MaxInvocations invocations.
RECURSIVE InferRuns(_, _, _, _)

\* infer falling back without recording it in _fallback_attempted
InferRunsFlagNotSet(outs, flag, dev, moved) ==
    IF Len(outs) >= MaxInvocations
    THEN { InferResult(<<>>, last_detections, flag, dev, Append(outs, "more"), moved,
                       <<>>) }
    ELSE LET failed(o, m) ==
                 InferResult(<<>>, last_detections, flag, dev, Append(outs, o), m, <<>>)
         IN  { InferResult(Detections(raw, confidence_threshold, allowed_class_names),
                           Detections(raw, confidence_threshold, allowed_class_names),
                           flag, dev, Append(outs, "ok"), moved, raw) : raw \in RawOutputs }
             \cup { failed("error", moved) }
             \cup ( IF ~flag
                    THEN { failed("device_error", "failed") }
                         \cup InferRuns(Append(outs, "device_error"), flag, "cpu", "ok")
                    ELSE { failed("device_error", moved) } )

InferRuns(outs, flag, dev, moved) ==
    IF Len(outs) >= MaxInvocations
    THEN { InferResult(<<>>, last_detections, flag, dev, Append(outs, "more"), moved,
                       <<>>) }
    ELSE LET failed(o, m) ==
                 InferResult(<<>>, last_detections, flag, dev, Append(outs, o), m, <<>>)
         IN  { InferResult(Detections(raw, confidence_threshold, allowed_class_names),
                           Detections(raw, confidence_threshold, allowed_class_names),
                           flag, dev, Append(outs, "ok"), moved, raw) : raw \in RawOutputs }
             \cup { failed("error", moved) }
             \cup ( IF ~flag
                    THEN { failed("device_error", "failed") }
                         \cup InferRuns(Append(outs, "device_error"), TRUE, "cpu", "ok")
                    ELSE { failed("device_error", moved) } )

\* infer escalating a failed inference to the ERROR state
InferEscalating ==
    \E r \in IF model = None
             THEN { InferResult(<<>>, last_detections, fallback_attempted, device,
                                <<>>, "not_tried", <<>>) }
             ELSE InferRuns(<<>>, fallback_attempted, device, "not_tried") :
        /\ last_detections' = r.last
        /\ fallback_attempted' = r.flag
        /\ device' = r.device
        /\ op' = [name |-> "infer", ret |-> r.ret, outs |-> r.outs, moved |-> r.moved,
                  raw |-> r.raw, flag_before |-> fallback_attempted,
                  prev |-> IF op.name = "infer" THEN op.outs ELSE <<>>]
        /\ IF r.outs # <<>> /\ r.outs[Len(r.outs)] # "ok"
           THEN SetState(ERROR, "Inference failed")
           ELSE UNCHANGED <<state, error_message>>
        /\ UNCHANGED <<model, confidence_threshold, allowed_class_names, load_attempted>>
        /\ UNCHANGED <<detVars, lockVars, call, guiVars, restVars>>

\* YOLOv8Engine.infer. op records the outcomes of the invocations made, and in
\* prev those of the call before when that was an infer call too.
Infer ==
    \E r \in IF model = None
             THEN { InferResult(<<>>, last_detections, fallback_attempted, device,
                                <<>>, "not_tried", <<>>) }
             ELSE InferRuns(<<>>, fallback_attempted, device, "not_tried") :
        /\ last_detections' = r.last
        /\ fallback_attempted' = r.flag
        /\ device' = r.device
        /\ op' = [name |-> "infer", ret |-> r.ret, outs |-> r.outs, moved |-> r.moved,
                  raw |-> r.raw, flag_before |-> fallback_attempted,
                  prev |-> IF op.name = "infer" THEN op.outs ELSE <<>>]
        /\ UNCHANGED <<state, error_message, model, confidence_threshold,
                       allowed_class_names, load_attempted>>
        /\ UNCHANGED <<detVars, lockVars, call, guiVars, restVars>>

\* YOLOv8Engine.get_detections
GetDetections ==
    /\ op' = [name |-> "get_detections", ret |-> last_detections]
    /\ UNCHANGED <<state, error_message, model, device, fallback_attempted,
                   last_detections, confidence_threshold, allowed_class_names,
                   load_attempted>>
    /\ UNCHANGED <<detVars, lockVars, call, guiVars, restVars>>

ThresholdInputs == {-5, 60, 120}

NextEngine ==
    \/ \E env \in LoadEnvs : LoadModel(env)
    \/ UnloadModel
    \/ Enable
    \/ Disable
    \/ \E t \in ThresholdInputs : SetConfidenceThreshold(t)
    \/ \E names \in AllowLists : SetAllowedClassNames(names)
    \/ Infer
    \/ GetDetections

(***************************************************************************)
(* The DetectionStateManager under threads, one statement per step: the    *)
(* main thread calls set_state (the toggle, unload_model), the loader      *)
(* thread runs ModelLoaderThread.run (load_model's set_state, then         *)
(* get_error_message when the load failed), a reader polls get_state and   *)
(* then get_error_message.                                                 *)
(***************************************************************************)
Threads == {"main", "loader", "reader"}
Writers == {"main", "loader"}

\* the arguments of the set_state calls each writer makes
MainArgs   == { <<ACTIVE, None>>, <<READY, None>>, <<OFF, None>> }
LoaderArgs == { <<READY, None>>, <<ERROR, MsgNotFound>>, <<ERROR, MsgFailed>> }

NothingRead == [state |-> None, msg |-> None]

LockInit ==
    /\ lock = "free"
    /\ pc = [t \in Threads |-> "idle"]
    /\ arg = [t \in Writers |-> <<LOADING, None>>]
    /\ rd = [t \in Threads |-> NothingRead]
    /\ last_args = <<LOADING, None>>
    /\ written = { <<LOADING, None>> }
    /\ emitted = <<>>
    /\ delivered = 0

\* a thread enters set_state(state, error_msg). The loader does so at the end
\* of load_model, which ModelLoaderThread.run calls after emitting progress;
\* emitted and delivered are those of the thread object that runs (each
\* ModelLoaderThread runs once).
CallSetState(t, a) ==
    /\ pc[t] \in {"idle", "done"}
    /\ arg' = [arg EXCEPT ![t] = a]
    /\ pc' = [pc EXCEPT ![t] = "acquire"]
    /\ rd' = [rd EXCEPT ![t] = NothingRead]
    /\ IF t = "loader"
       THEN emitted' = <<"progress">> /\ delivered' = 0
       ELSE UNCHANGED <<emitted, delivered>>
    /\ UNCHANGED <<lock, last_args, written, state, error_message>>
    /\ UNCHANGED <<detVars, engVars, call, guiVars, restVars>>

\* set_state entered without waiting for the lock
AcquireNoWait(t) ==
    /\ pc[t] = "acquire"
    /\ lock' = t
    /\ last_args' = arg[t]
    /\ pc' = [pc EXCEPT ![t] = "write_state"]
    /\ UNCHANGED <<arg, rd, written, state, error_message>>
    /\ UNCHANGED <<emitted, delivered>>
    /\ UNCHANGED <<detVars, engVars, call, guiVars, restVars>>

\* set_state: with self._lock
Acquire(t) ==
    /\ pc[t] = "acquire"
    /\ lock = "free"
    /\ lock' = t
    /\ last_args' = arg[t]
    /\ pc' = [pc EXCEPT ![t] = "write_state"]
    /\ UNCHANGED <<arg, rd, written, state, error_message>>
    /\ UNCHANGED <<emitted, delivered>>
    /\ UNCHANGED <<detVars, engVars, call, guiVars, restVars>>

\* set_state: self._state = state
WriteState(t) ==
    /\ pc[t] = "write_state"
    /\ state' = arg[t][1]
    /\ pc' = [pc EXCEPT ![t] = "write_msg"]
    /\ UNCHANGED <<lock, arg, rd, last_args, written, error_message>>
    /\ UNCHANGED <<emitted, delivered>>
    /\ UNCHANGED <<detVars, engVars, call, guiVars, restVars>>

\* set_state: self._error_message = error_msg
WriteMsg(t) ==
    /\ pc[t] = "write_msg"
    /\ error_message' = arg[t][2]
    /\ written' = written \cup {arg[t]}
    /\ pc' = [pc EXCEPT ![t] = "release"]
    /\ UNCHANGED <<lock, arg, rd, last_args, state>>
    /\ UNCHANGED <<emitted, delivered>>
    /\ UNCHANGED <<detVars, engVars, call, guiVars, restVars>>

\* set_state: the end of the with block. The main thread is then free to
\* call again; the loader thread goes on in run(): after a failed load it
\* reads the message, after a successful one it emits progress.
Release(t) ==
    /\ pc[t] = "release"
    /\ lock' = "free"
    /\ pc' = [pc EXCEPT ![t] =
                 IF t = "loader"
                 THEN IF arg[t][1] = ERROR THEN "read_msg" ELSE "emit_progress"
                 ELSE "idle"]
    /\ UNCHANGED <<arg, rd, last_args, written, state, error_message>>
    /\ UNCHANGED <<emitted, delivered>>
    /\ UNCHANGED <<detVars, engVars, call, guiVars, restVars>>

\* DetectionStateManager.get_state
GetState(t) ==
    /\ pc[t] \in {"idle", "done"}
    /\ lock = "free"
    /\ rd' = [rd EXCEPT ![t] = [state |-> state, msg |-> None]]
    /\ pc' = [pc EXCEPT ![t] = "read_msg"]
    /\ UNCHANGED <<lock, arg, last_args, written, state, error_message>>
    /\ UNCHANGED <<emitted, delivered>>
    /\ UNCHANGED <<detVars, engVars, call, guiVars, restVars>>

\* DetectionStateManager.get_error_message
GetErrorMessage(t) ==
    /\ pc[t] = "read_msg"
    /\ lock = "free"
    /\ rd' = [rd EXCEPT ![t].msg = error_message]
    /\ pc' = [pc EXCEPT ![t] = IF t = "loader" THEN "emit_error" ELSE "done"]
    /\ UNCHANGED <<lock, arg, last_args, written, state, error_message>>
    /\ UNCHANGED <<emitted, delivered>>
    /\ UNCHANGED <<detVars, engVars, call, guiVars, restVars>>

\* ModelLoaderThread.run after a successful load: self.progress.emit(...)
EmitProgress ==
    /\ pc["loader"] = "emit_progress"
    /\ emitted' = Append(emitted, "progress")
    /\ pc' = [pc EXCEPT !["loader"] = "emit_finished"]
    /\ UNCHANGED <<lock, arg, rd, last_args, written, delivered, state, error_message>>
    /\ UNCHANGED <<detVars, engVars, call, guiVars, restVars>>

\* ModelLoaderThread.run after a failed load: self.error.emit(error_msg or ...)
EmitError ==
    /\ pc["loader"] = "emit_error"
    /\ emitted' = Append(emitted, "error")
    /\ pc' = [pc EXCEPT !["loader"] = "emit_finished"]
    /\ UNCHANGED <<lock, arg, rd, last_args, written, delivered, state, error_message>>
    /\ UNCHANGED <<detVars, engVars, call, guiVars, restVars>>

\* run() reporting success whatever load_model returned
EmitFinishedAlwaysTrue ==
    /\ pc["loader"] = "emit_finished"
    /\ emitted' = Append(emitted, "finished(True)")
    /\ pc' = [pc EXCEPT !["loader"] = "done"]
    /\ UNCHANGED <<lock, arg, rd, last_args, written, delivered, state, error_message>>
    /\ UNCHANGED <<detVars, engVars, call, guiVars, restVars>>

\* ModelLoaderThread.run: self.finished.emit(success)
EmitFinished ==
    /\ pc["loader"] = "emit_finished"
    /\ emitted' = Append(emitted, IF arg["loader"][1] = ERROR
                                  THEN "finished(False)" ELSE "finished(True)")
    /\ pc' = [pc EXCEPT !["loader"] = "done"]
    /\ UNCHANGED <<lock, arg, rd, last_args, written, delivered, state, error_message>>
    /\ UNCHANGED <<detVars, engVars, call, guiVars, restVars>>

\* The main flow handles the next signal of the loader thread (a queued
\* connection: the slot runs in the main thread, between its own calls)
Deliver ==
    /\ pc["main"] \in {"idle", "done"}
    /\ delivered < Len(emitted)
    /\ delivered' = delivered + 1
    /\ UNCHANGED <<lock, pc, arg, rd, last_args, written, emitted, state, error_message>>
    /\ UNCHANGED <<detVars, engVars, call, guiVars, restVars>>

NextLock ==
    \/ \E a \in MainArgs : CallSetState("main", a)
    \/ \E a \in LoaderArgs : CallSetState("loader", a)
    \/ \E t \in Writers : Acquire(t)
    \/ \E t \in Writers : WriteState(t)
    \/ \E t \in Writers : WriteMsg(t)
    \/ \E t \in Writers : Release(t)
    \/ GetState("reader")
    \/ \E t \in {"loader", "reader"} : GetErrorMessage(t)
    \/ EmitProgress
    \/ EmitError
    \/ EmitFinished
    \/ Deliver

(***************************************************************************)
(* The specifications.                                                     *)
(***************************************************************************)
\* no function of the detector has been called on its own yet
NoCall == [fn |-> "none"]

(***************************************************************************)
(* The main window: the video timer delivers frames whether detection runs *)
(* or not; start_detection and stop_detection are handlers of the main     *)
(* flow. A modal dialog runs an event loop of its own, in which the timer  *)
(* goes on firing.                                                         *)
(***************************************************************************)
\* A window whose model load is over or not, with or without a set and a
\* camera, with the preview running or not
GuiInit ==
    /\ is_detecting = FALSE
    /\ model_loading \in BOOLEAN
    /\ window_set \in {None, "set"}
    /\ video_source \in BOOLEAN
    /\ is_playing \in BOOLEAN
    /\ gui_pc = "idle"
    /\ n_frames = 0
    /\ stopped = FALSE
    /\ gui_op = [name |-> "init"]

\* MainWindow.start_detection. VideoDisplayWidget has no method
\* update_detection_status: the call raises AttributeError after
\* is_detecting = True, and the handler shows a modal dialog before it sets
\* is_detecting back to False.
StartDetection ==
    /\ gui_pc = "idle"
    /\ IF model_loading \/ window_set = None
       THEN /\ gui_op' = [name |-> "start_detection", outcome |-> "refused"]
            /\ UNCHANGED <<is_detecting, video_source, is_playing, gui_pc, current_set>>
       ELSE IF ~video_source
       THEN /\ video_source' \in BOOLEAN
            /\ gui_op' = [name |-> "start_detection", outcome |-> "refused"]
            /\ UNCHANGED <<is_detecting, is_playing, gui_pc, current_set>>
       ELSE /\ current_set' = "set"
            /\ \E started \in BOOLEAN :
                  IF ~is_playing /\ ~started
                  THEN /\ gui_op' = [name |-> "start_detection", outcome |-> "no video"]
                       /\ UNCHANGED <<is_detecting, is_playing, gui_pc>>
                  ELSE /\ is_playing' = TRUE
                       /\ is_detecting' = TRUE
                       /\ gui_pc' = "start_error_dialog"
                       /\ gui_op' = [name |-> "start_detection", outcome |-> "raised"]
            /\ UNCHANGED video_source
    /\ UNCHANGED <<model_loading, window_set, n_frames, stopped>>
    /\ UNCHANGED <<found_quantity, color_threshold, detection_history, det_ret,
                   nCalls, nPushes, pushed, det_call>>
    /\ UNCHANGED <<stateVars, engVars, lockVars, call, restVars>>

\* start_detection, after its error dialog is closed: self.is_detecting = False
StartDetectionFailed ==
    /\ gui_pc = "start_error_dialog"
    /\ is_detecting' = FALSE
    /\ gui_pc' = "idle"
    /\ gui_op' = [name |-> "start_detection", outcome |-> "failed"]
    /\ UNCHANGED <<model_loading, window_set, video_source, is_playing, n_frames, stopped>>
    /\ UNCHANGED <<detVars, stateVars, engVars, lockVars, call, restVars>>

\* MainWindow.stop_detection: is_detecting = False comes first; the call of
\* update_detection_status raises and the handler shows a modal dialog
StopDetection ==
    /\ gui_pc = "idle"
    /\ is_detecting' = FALSE
    /\ stopped' = TRUE
    /\ gui_pc' = "stop_error_dialog"
    /\ gui_op' = [name |-> "stop_detection", outcome |-> "raised"]
    /\ UNCHANGED <<model_loading, window_set, video_source, is_playing, n_frames>>
    /\ UNCHANGED <<detVars, stateVars, engVars, lockVars, call, restVars>>

\* stop_detection, after its error dialog is closed
StopDetectionReturns ==
    /\ gui_pc = "stop_error_dialog"
    /\ gui_pc' = "idle"
    /\ gui_op' = [name |-> "stop_detection", outcome |-> "returned"]
    /\ UNCHANGED <<is_detecting, model_loading, window_set, video_source, is_playing,
                   n_frames, stopped>>
    /\ UNCHANGED <<detVars, stateVars, engVars, lockVars, call, restVars>>

\* VideoDisplayWidget._update_frame with a frame read, and
\* MainWindow._on_frame_processed, which the emit calls: detect_bricks runs
\* if is_detecting and a set is loaded; the frame is then displayed if it
\* converts to an image
UpdateFrame(frame) ==
    /\ is_playing
    /\ n_frames < MaxFrames
    /\ n_frames' = n_frames + 1
    /\ IF is_detecting /\ window_set # None
       THEN DetectBricksBody(frame)
       ELSE UNCHANGED detVars
    /\ \E shown \in BOOLEAN :
          gui_op' = [name |-> "frame", detected |-> is_detecting /\ window_set # None,
                     displayed |-> shown, stopped |-> stopped, during |-> gui_pc]
    /\ UNCHANGED <<is_detecting, model_loading, window_set, video_source, is_playing,
                   gui_pc, stopped>>
    /\ UNCHANGED <<stateVars, engVars, lockVars, call, restVars>>

NextGui ==
    \/ StartDetection
    \/ StartDetectionFailed
    \/ StopDetection
    \/ StopDetectionReturns
    \/ \E f \in Frames : UpdateFrame(f)

(***************************************************************************)
(* The calls of the core with something failing inside them. The engine    *)
(* and the classic detector share no state: a run uses one of them.        *)
(***************************************************************************)
\* YOLOv8Engine.set_confidence_threshold with a value float() refuses: the
\* except branch logs and leaves the threshold
SetConfidenceThresholdRejected ==
    /\ op' = [name |-> "set_confidence_threshold(invalid)",
              before |-> confidence_threshold]
    /\ UNCHANGED <<state, error_message, model, device, fallback_attempted,
                   last_detections, confidence_threshold, allowed_class_names,
                   load_attempted>>
    /\ UNCHANGED <<detVars, lockVars, call, guiVars, restVars>>

\* YOLOv8Engine.set_allowed_class_names with a value that has no len(): the
\* except branch logs and leaves the allow-list
SetAllowedClassNamesRejected ==
    /\ op' = [name |-> "set_allowed_class_names(invalid)",
              before |-> allowed_class_names]
    /\ UNCHANGED <<state, error_message, model, device, fallback_attempted,
                   last_detections, confidence_threshold, allowed_class_names,
                   load_attempted>>
    /\ UNCHANGED <<detVars, lockVars, call, guiVars, restVars>>

\* ContourAnalyzer.find_brick_contours called on its own
FindBrickContoursCall(frame) ==
    /\ call' = [fn |-> "find_brick_contours", frame |-> frame,
                ret |-> FindBrickContours(frame)]
    /\ UNCHANGED <<detVars, stateVars, engVars, lockVars, guiVars, restVars>>

\* ColorMatcher.match_brick_color called on its own, on the region of a
\* contour; before set_lego_set the matcher has no bricks to check
MatchBrickColorCall(region) ==
    /\ call' = [fn |-> "match_brick_color", region |-> region,
                threshold |-> color_threshold,
                ret |-> IF current_set = None /\ region.rgb # <<>> THEN NoneRec
                        ELSE MatchBrickColor(region, found_quantity, color_threshold)]
    /\ UNCHANGED <<detVars, stateVars, engVars, lockVars, guiVars, restVars>>

EngineUntouched == op.name = "init"
DetectorUntouched ==
    /\ current_set = None /\ color_threshold = Unset
    /\ det_call = NoneRec /\ call = NoCall

NextFaults ==
    \/ EngineUntouched /\ SetLegoSet
    \/ EngineUntouched /\ \E t \in ColorThresholds : SetParams(t)
    \/ EngineUntouched /\ \E f \in FaultFrames : nCalls < MaxCalls /\ DetectBricks(f)
    \/ EngineUntouched /\ \E f \in FaultFrames : FindBrickContoursCall(f)
    \/ EngineUntouched /\ \E r \in FaultRegions : MatchBrickColorCall(r)
    \/ DetectorUntouched /\ \E env \in LoadEnvs : LoadModel(env)
    \/ DetectorUntouched /\ UnloadModel
    \/ DetectorUntouched /\ Infer
    \/ DetectorUntouched /\ \E t \in ThresholdInputs : SetConfidenceThreshold(t)
    \/ DetectorUntouched /\ SetConfidenceThresholdRejected
    \/ DetectorUntouched /\ \E names \in AllowLists : SetAllowedClassNames(names)
    \/ DetectorUntouched /\ SetAllowedClassNamesRejected

(***************************************************************************)
(* BrickListWidget (src/gui/brick_list_widget.py) and the counters of the  *)
(* LegoSet it shows (src/models/lego_set.py).                              *)
(***************************************************************************)
MaxAmount == 3      \* quantities passed to mark_brick_found / unmark_brick_found

\* the set loaded into the widget: part number and quantity of every brick
WidgetBricks == << [part_number |-> "3001", quantity |-> 2],
                   [part_number |-> "3002", quantity |-> 3] >>
WidgetParts == { WidgetBricks[i].part_number : i \in 1..Len(WidgetBricks) }
QuantityOf(p) ==
    WidgetBricks[CHOOSE i \in 1..Len(WidgetBricks) : WidgetBricks[i].part_number = p].quantity
\* part numbers a caller may pass: those of the set and one that is not
PartInputs == WidgetParts \cup {"9999"}
Amounts == 1..MaxAmount
DetectionSets == SUBSET WidgetParts

ListInit ==
    /\ list_found = [p \in WidgetParts |-> 0]
    /\ pending_detections = {}
    /\ detected_bricks = {}
    /\ is_detected = [p \in WidgetParts |-> FALSE]
    /\ list_op = [name |-> "init"]

\* the comparison of mark_brick_found, without the upper limit
MarkFitsAlways(found, total, quantity) == TRUE
\* brick.found_quantity + quantity <= brick.quantity
MarkFits(found, total, quantity) == found + quantity <= total
\* brick.found_quantity - quantity >= 0
UnmarkFits(found, quantity) == found - quantity >= 0

\* LegoSet.mark_brick_found(part_number, quantity)
LegoSetMarkBrickFound(p, quantity) ==
    LET ok == p \in WidgetParts /\ MarkFits(list_found[p], QuantityOf(p), quantity)
    IN  /\ list_found' = IF ok THEN [list_found EXCEPT ![p] = @ + quantity] ELSE list_found
        /\ list_op' = [name |-> "mark_brick_found", part |-> p, amount |-> quantity,
                       before |-> list_found, ret |-> ok]
        /\ UNCHANGED <<pending_detections, detected_bricks, is_detected>>
        /\ UNCHANGED <<detVars, stateVars, engVars, lockVars, call, guiVars, cacheVars, markVars, raceVars>>

\* LegoSet.unmark_brick_found(part_number, quantity)
LegoSetUnmarkBrickFound(p, quantity) ==
    LET ok == p \in WidgetParts /\ UnmarkFits(list_found[p], quantity)
    IN  /\ list_found' = IF ok THEN [list_found EXCEPT ![p] = @ - quantity] ELSE list_found
        /\ list_op' = [name |-> "unmark_brick_found", part |-> p, amount |-> quantity,
                       before |-> list_found, ret |-> ok]
        /\ UNCHANGED <<pending_detections, detected_bricks, is_detected>>
        /\ UNCHANGED <<detVars, stateVars, engVars, lockVars, call, guiVars, cacheVars, markVars, raceVars>>

\* BrickListWidget.increment_brick_counter(part_number)
IncrementBrickCounter(p) ==
    LET ok == p \in WidgetParts /\ ~(list_found[p] >= QuantityOf(p))
    IN  /\ list_found' = IF ok THEN [list_found EXCEPT ![p] = @ + 1] ELSE list_found
        /\ list_op' = [name |-> "increment_brick_counter", part |-> p, amount |-> 1,
                       before |-> list_found, ret |-> ok]
        /\ UNCHANGED <<pending_detections, detected_bricks, is_detected>>
        /\ UNCHANGED <<detVars, stateVars, engVars, lockVars, call, guiVars, cacheVars, markVars, raceVars>>

\* BrickListWidget.decrement_brick_counter(part_number)
DecrementBrickCounter(p) ==
    LET ok == p \in WidgetParts /\ ~(list_found[p] <= 0)
    IN  /\ list_found' = IF ok THEN [list_found EXCEPT ![p] = @ - 1] ELSE list_found
        /\ list_op' = [name |-> "decrement_brick_counter", part |-> p, amount |-> 1,
                       before |-> list_found, ret |-> ok]
        /\ UNCHANGED <<pending_detections, detected_bricks, is_detected>>
        /\ UNCHANGED <<detVars, stateVars, engVars, lockVars, call, guiVars, cacheVars, markVars, raceVars>>

\* BrickListWidget.update_detection_status(detected_part_numbers)
UpdateDetectionStatus(detected_part_numbers) ==
    /\ pending_detections' = detected_part_numbers
    /\ list_op' = [name |-> "update_detection_status", arg |-> detected_part_numbers,
                   detected_before |-> detected_bricks, flags_before |-> is_detected]
    /\ UNCHANGED <<list_found, detected_bricks, is_detected>>
    /\ UNCHANGED <<detVars, stateVars, engVars, lockVars, call, guiVars, cacheVars, markVars, raceVars>>

\* BrickListWidget._apply_detection_updates(): its body is "pass"
ApplyDetectionUpdates ==
    /\ list_op' = [name |-> "_apply_detection_updates", pending |-> pending_detections]
    /\ UNCHANGED <<list_found, pending_detections, detected_bricks, is_detected>>
    /\ UNCHANGED <<detVars, stateVars, engVars, lockVars, call, guiVars, cacheVars, markVars, raceVars>>

NextList ==
    \/ \E p \in PartInputs, quantity \in Amounts : LegoSetMarkBrickFound(p, quantity)
    \/ \E p \in PartInputs, quantity \in Amounts : LegoSetUnmarkBrickFound(p, quantity)
    \/ \E p \in PartInputs : IncrementBrickCounter(p)
    \/ \E p \in PartInputs : DecrementBrickCounter(p)
    \/ \E detected_part_numbers \in DetectionSets : UpdateDetectionStatus(detected_part_numbers)
    \/ ApplyDetectionUpdates

(***************************************************************************)
(* ImageCache (src/utils/image_cache.py): the keys of the OrderedDict, in  *)
(* its order.  What get_image stores for a key (the image read from disk   *)
(* or a placeholder) has no part in which keys are kept.                   *)
(***************************************************************************)
MaxSize == 2        \* ImageCache._max_size of the cache under study

CacheKeys == {"3001", "3002", "3003", "3004", "3005"}

CacheInit ==
    /\ cache = <<>>
    /\ cache_op = [name |-> "init"]

Without(keys, key) == SelectSeq(keys, LAMBDA k : k # key)
\* a hit that leaves the order as it is
MoveToEndStays(keys, key) == keys
\* OrderedDict.move_to_end(key)
MoveToEnd(keys, key) == Append(Without(keys, key), key)
\* OrderedDict.popitem(last=False)
PopOldest(keys) == Tail(keys)
InCache(keys, key) == \E i \in 1..Len(keys) : keys[i] = key

\* ImageCache.get_image(part_number)
GetImage(part_number) ==
    /\ cache' = IF InCache(cache, part_number)
                THEN MoveToEnd(cache, part_number)
                ELSE LET added == Append(cache, part_number)
                     IN  IF Len(added) > MaxSize THEN PopOldest(added) ELSE added
    /\ cache_op' = [name |-> "get_image", part |-> part_number,
                    hit |-> InCache(cache, part_number), before |-> cache]
    /\ UNCHANGED <<detVars, stateVars, engVars, lockVars, call, guiVars, listVars, markVars, raceVars>>

NextCache == \E part_number \in CacheKeys : GetImage(part_number)

(***************************************************************************)
(* The manual marks of the bricks (src/models/brick.py), set while the     *)
(* detector runs on the same set.                                          *)
(***************************************************************************)
MarkInit == manually_marked = [p \in PartNumbers |-> FALSE]

\* Brick.should_be_detected
ShouldBeDetected(brick, found, marked) ==
    ~marked[brick.part_number] /\ ~IsFullyFound(brick, found)

\* Brick.mark_as_manually_found
MarkAsManuallyFound(p) ==
    /\ manually_marked' = [manually_marked EXCEPT ![p] = TRUE]
    /\ UNCHANGED <<detVars, stateVars, engVars, lockVars, call, guiVars, listVars, cacheVars, raceVars>>

\* Brick.unmark_manually_found
UnmarkManuallyFound(p) ==
    /\ manually_marked' = [manually_marked EXCEPT ![p] = FALSE]
    /\ UNCHANGED <<detVars, stateVars, engVars, lockVars, call, guiVars, listVars, cacheVars, raceVars>>

\* the detector, with bricks marked and unmarked by hand between its calls
NextManual ==
    \/ SetLegoSet
    \/ \E t \in ColorThresholds : SetParams(t)
    \/ \E p \in PartNumbers : MarkBrickFound(p)
    \/ \E p \in PartNumbers : UnmarkBrickFound(p)
    \/ \E p \in PartNumbers : manually_marked[p] = FALSE /\ MarkAsManuallyFound(p)
    \/ \E p \in PartNumbers : manually_marked[p] = TRUE /\ UnmarkManuallyFound(p)
    \/ \E f \in Frames : nCalls < MaxCalls /\ DetectBricks(f)

(***************************************************************************)
(* unload_model and infer of one YOLOv8Engine called on two threads, each  *)
(* statement that reads or writes self.model a step of its own.  Between   *)
(* "del self.model" and "self.model = None" the engine has no attribute    *)
(* model, and reading it raises AttributeError.                            *)
(***************************************************************************)
Absent == "absent"
InFlight == [kind |-> "pending"]
ReturnedList(list) == [kind |-> "list", list |-> list]
Escaped(exc) == [kind |-> "raised", exc |-> exc]

RaceInit ==
    /\ race_pc = [t \in {"unload", "infer"} |-> "idle"]
    /\ infer_raw = <<>>
    /\ infer_ret = InFlight

RaceStep(t, to) == race_pc' = [race_pc EXCEPT ![t] = to]
\* what no step of the two calls touches
RaceFrame == UNCHANGED <<confidence_threshold, allowed_class_names, op, load_attempted,
                         detVars, lockVars, call, guiVars, listVars, cacheVars, markVars>>

\* unload_model: if self.model is not None (an AttributeError is caught and logged)
UnloadTest ==
    /\ race_pc["unload"] = "idle"
    /\ RaceStep("unload", IF model \in {Absent, None} THEN "done" ELSE "del")
    /\ UNCHANGED <<model, state, error_message, device, fallback_attempted,
                   last_detections, infer_raw, infer_ret>>
    /\ RaceFrame

\* unload_model: del self.model
UnloadDel ==
    /\ race_pc["unload"] = "del"
    /\ IF model = Absent
       THEN RaceStep("unload", "done") /\ UNCHANGED model
       ELSE RaceStep("unload", "assign") /\ model' = Absent
    /\ UNCHANGED <<state, error_message, device, fallback_attempted,
                   last_detections, infer_raw, infer_ret>>
    /\ RaceFrame

\* unload_model: self.model = None
UnloadAssign ==
    /\ race_pc["unload"] = "assign"
    /\ model' = None
    /\ RaceStep("unload", "set_state")
    /\ UNCHANGED <<state, error_message, device, fallback_attempted,
                   last_detections, infer_raw, infer_ret>>
    /\ RaceFrame

\* unload_model: self.state_manager.set_state(DetectionState.OFF)
UnloadSetState ==
    /\ race_pc["unload"] = "set_state"
    /\ SetState(OFF, None)
    /\ RaceStep("unload", "done")
    /\ UNCHANGED <<model, device, fallback_attempted, last_detections, infer_raw, infer_ret>>
    /\ RaceFrame

\* infer: if self.model is None, return []. The test stands before the try
\* block: an AttributeError leaves infer, unless this is the call infer
\* makes to itself inside the try block of its CPU fallback.
InferTestOutcome(nested) ==
    IF model = Absent THEN (IF nested THEN ReturnedList(<<>>) ELSE Escaped("AttributeError"))
    ELSE IF model = None THEN ReturnedList(<<>>)
    ELSE InFlight

InferTest ==
    /\ race_pc["infer"] \in {"idle", "again"}
    /\ infer_ret' = InferTestOutcome(race_pc["infer"] = "again")
    /\ RaceStep("infer", IF infer_ret' = InFlight THEN "invoke" ELSE "done")
    /\ UNCHANGED <<model, state, error_message, device, fallback_attempted,
                   last_detections, infer_raw>>
    /\ RaceFrame

\* infer: results = self.model(frame, ...), inside the try block: without a
\* model the exception is caught and [] returned; with one the invocation
\* ends as the environment chooses
InferInvoke ==
    /\ race_pc["infer"] = "invoke"
    /\ IF model \in {Absent, None}
       THEN /\ infer_ret' = ReturnedList(<<>>) /\ RaceStep("infer", "done")
            /\ UNCHANGED infer_raw
       ELSE \E o \in Outcomes :
              \/ /\ o = "ok"
                 /\ \E raw \in RawOutputs : infer_raw' = raw
                 /\ RaceStep("infer", "boxes") /\ UNCHANGED infer_ret
              \/ /\ o = "device_error" /\ ~fallback_attempted
                 /\ RaceStep("infer", "fallback") /\ UNCHANGED <<infer_raw, infer_ret>>
              \/ /\ o = "error" \/ (o = "device_error" /\ fallback_attempted)
                 /\ infer_ret' = ReturnedList(<<>>) /\ RaceStep("infer", "done")
                 /\ UNCHANGED infer_raw
    /\ UNCHANGED <<model, state, error_message, device, fallback_attempted, last_detections>>
    /\ RaceFrame

\* infer: self.model.to("cpu"); self.device = "cpu"; self._fallback_attempted
\* = True; return self.infer(frame), all inside a try block of their own
InferFallback ==
    /\ race_pc["infer"] = "fallback"
    /\ IF model \in {Absent, None}
       THEN /\ infer_ret' = ReturnedList(<<>>) /\ RaceStep("infer", "done")
            /\ UNCHANGED <<device, fallback_attempted>>
       ELSE \E moved \in BOOLEAN :
              IF moved
              THEN /\ device' = "cpu" /\ fallback_attempted' = TRUE
                   /\ RaceStep("infer", "again") /\ UNCHANGED infer_ret
              ELSE /\ infer_ret' = ReturnedList(<<>>) /\ RaceStep("infer", "done")
                   /\ UNCHANGED <<device, fallback_attempted>>
    /\ UNCHANGED <<model, state, error_message, last_detections, infer_raw>>
    /\ RaceFrame

\* infer: the loop over the boxes. A box of sufficient confidence has its
\* name read from self.model.names, inside the try block.
InferBoxes ==
    /\ race_pc["infer"] = "boxes"
    /\ IF /\ model \in {Absent, None}
          /\ \E i \in 1..Len(infer_raw) : ~(infer_raw[i].conf < confidence_threshold)
       THEN infer_ret' = ReturnedList(<<>>) /\ UNCHANGED last_detections
       ELSE LET detections == Detections(infer_raw, confidence_threshold, allowed_class_names)
            IN  infer_ret' = ReturnedList(detections) /\ last_detections' = detections
    /\ RaceStep("infer", "done")
    /\ UNCHANGED <<model, state, error_message, device, fallback_attempted, infer_raw>>
    /\ RaceFrame

NextRace ==
    \/ UnloadTest \/ UnloadDel \/ UnloadAssign \/ UnloadSetState
    \/ InferTest \/ InferInvoke \/ InferFallback \/ InferBoxes

RestInit == ListInit /\ CacheInit /\ MarkInit /\ RaceInit

\* the window as constructed
GuiConstructed ==
    /\ GuiInit
    /\ model_loading /\ window_set = None /\ ~video_source /\ ~is_playing

Init == DetInit /\ EngInit /\ LockInit /\ GuiConstructed /\ RestInit /\ call = NoCall

\* the engine's device matters to SpecEngine alone
InitCpu == Init /\ device = "cpu"

SpecDetector == InitCpu /\ [][NextDetector]_vars
SpecEngine   == Init /\ [][NextEngine]_vars
SpecLock     == InitCpu /\ [][NextLock]_vars
SpecWindow   == InitCpu /\ [][NextWindow]_vars

\* The threads under a scheduler that runs every thread that can run: a
\* thread inside the with block of set_state goes on to leave it, and the
\* loader thread, once started, takes each of its steps; it gets the lock
\* when the lock keeps coming free.
HoldsLockStep(t) == WriteState(t) \/ WriteMsg(t) \/ Release(t)
LoaderStep ==
    \/ Acquire("loader") \/ HoldsLockStep("loader")
    \/ GetErrorMessage("loader")
    \/ EmitProgress \/ EmitError \/ EmitFinished
SpecLockFair ==
    /\ SpecLock
    /\ WF_vars(HoldsLockStep("main"))
    /\ SF_vars(LoaderStep)

\* _filter_detections on its own, for every list of NmsInputs
InitNms ==
    /\ DetInit /\ EngInit /\ LockInit /\ GuiConstructed /\ RestInit /\ device = "cpu"
    /\ call \in { Pending(detections) : detections \in NmsInputs }
SpecNms      == InitNms /\ [][NextNms]_vars

\* The constructor of DetectionResult on its own: confidences from below 0.0
\* to above 1.0 in percent, boxes of even and odd sizes, at negative
\* coordinates, empty and malformed, with and without a centre given
ConfidenceInputs == (0 - ConfMargin)..(100 + ConfMargin)
BboxInputs ==
    { <<0, 0, 40, 40>>, <<10, 20, 41, 33>>, <<-3, -5, 7, 9>>, <<5, 5, 1, 1>>,
      <<0, 0, 0, 0>>, <<3, 4, 5>> }
CenterInputs == { NoCenter, <<0, 0>>, <<7, 9>> }

InitResult ==
    /\ DetInit /\ EngInit /\ LockInit /\ GuiConstructed /\ RestInit /\ device = "cpu"
    /\ call \in { [fn |-> "new", bbox |-> b, confidence |-> c, center_point |-> p] :
                     b \in BboxInputs, c \in ConfidenceInputs, p \in CenterInputs }

\* DetectionResult(brick_id, bbox, confidence, center_point, color)
NewDetectionResult ==
    /\ call.fn = "new"
    /\ call' = [fn |-> "DetectionResult", bbox |-> call.bbox,
                confidence |-> call.confidence, center_point |-> call.center_point,
                ret |-> DetectionResult("3005", call.bbox, call.confidence,
                                        call.center_point, "red")]
    /\ UNCHANGED <<detVars, stateVars, engVars, lockVars, guiVars, restVars>>

NextResult == NewDetectionResult

SpecResult   == InitResult /\ [][NextResult]_vars

SpecFaults   == Init /\ [][NextFaults]_vars

\* the window with its detector
InitGui ==
    /\ DetInit /\ EngInit /\ LockInit /\ GuiInit /\ RestInit /\ device = "cpu" /\ call = NoCall
SpecGui      == InitGui /\ [][NextGui]_vars

\* the widget: the counters of its set and its detection feedback
SpecList     == InitCpu /\ [][NextList]_vars
\* the image cache
SpecCache    == InitCpu /\ [][NextCache]_vars
\* the detector and the manual marks
SpecManual   == InitCpu /\ [][NextManual]_vars

\* an engine that has loaded its model, READY or switched to ACTIVE, on
\* either device, when the two calls start
InitRace ==
    /\ DetInit /\ LockInit /\ GuiConstructed /\ RestInit /\ call = NoCall
    /\ state \in {READY, ACTIVE}
    /\ error_message = None
    /\ model = "yolo"
    /\ device \in {"cuda", "cpu"}
    /\ fallback_attempted = FALSE
    /\ last_detections = <<>>
    /\ confidence_threshold = DefaultConfidencePct
    /\ allowed_class_names = NoneRec
    /\ op = [name |-> "load_model", ret |-> TRUE]
    /\ load_attempted = TRUE
SpecRace     == InitRace /\ [][NextRace]_vars

(***************************************************************************)
(* The claims.                                                             *)
(***************************************************************************)
\* the identities get_stable_detections returns
StableIds == {GetStableDetections(detection_history)[i].brick_id :
                 i \in 1..Len(GetStableDetections(detection_history))}

\* in how many of the last 3 pushed frames the identity appears
FramesHolding(id) ==
    LET frames == LastFrames(detection_history)
    IN  Cardinality({i \in 1..Len(frames) :
                        \E j \in 1..Len(frames[i]) : frames[i][j].brick_id = id})

\* C1: once 3 frames have been pushed, get_stable_detections() includes an
\* identity if and only if it appears in at least 2 of the last 3 pushed
\* frames, also when a frame holds the identity more than once.
C1_StableIffQuorum ==
    Len(detection_history) >= StableWindow =>
        \A id \in PartNumbers : id \in StableIds <=> FramesHolding(id) >= StableQuorum

\* C2: with a Lego set configured, every detect_bricks call pushes exactly
\* one list to the detection history: as many pushes as calls.
C2_EveryCallPushes == nPushes = nCalls

\* the edges of the lifecycle graph of the specification
LifecycleEdges ==
    { <<OFF, LOADING>>, <<LOADING, READY>>, <<LOADING, ERROR>>, <<READY, ACTIVE>>,
      <<ACTIVE, READY>>, <<ERROR, LOADING>> }
    \cup { <<s, ERROR>> : s \in DetectionState }

\* C3: every change of the lifecycle state follows an edge of the graph
\* OFF->LOADING, LOADING->READY, LOADING->ERROR, READY->ACTIVE,
\* ACTIVE->READY, any->ERROR, ERROR->LOADING.
C3_ChangesFollowGraph ==
    [][state' # state => <<state, state'>> \in LifecycleEdges]_vars

\* C4: a reader that takes the state and then the error message gets a pair
\* that one set_state call stored together, and the loader thread, reading
\* the message after its failed load, gets the message of that load.
C4_ReadPairWrittenTogether ==
    /\ pc["reader"] = "done" => <<rd["reader"].state, rd["reader"].msg>> \in written
    /\ pc["loader"] = "done" /\ arg["loader"][1] = ERROR
          => rd["loader"].msg = arg["loader"][2]

\* C5: whenever the lock is free, the stored (state, message) pair is the
\* pair of arguments of one set_state call, the last to take the lock.
C5_StoredPairOfLastWriter ==
    lock = "free" => <<state, error_message>> = last_args

\* C5 witness: the loader's set_state completed while the main thread's call
\* was waiting for the lock, and the stored pair is the loader's.
C5_Witness ==
    /\ lock = "free"
    /\ pc["main"] = "acquire"
    /\ pc["loader"] \in {"read_msg", "done"}
    /\ last_args = arg["loader"]
    /\ arg["main"] # arg["loader"]
    /\ <<state, error_message>> = <<ERROR, MsgNotFound>>

\* C6: load_model returns True exactly when it leaves READY with no message
\* and False exactly when it leaves ERROR with a non-empty message; a load of
\* a nonexistent path writes no READY.
C6_LoadResultMatchesState ==
    op.name = "load_model" =>
        /\ op.ret <=> (state = READY /\ error_message = None)
        /\ ~op.ret <=> (state = ERROR /\ error_message \notin {None, ""})
        /\ ~op.exists => \A i \in 1..Len(op.wrote) : op.wrote[i] # READY

\* C6 witness: a load of a nonexistent path, made when the state was READY,
\* has returned False.
C6_Witness ==
    /\ op.name = "load_model"
    /\ ~op.exists
    /\ ~op.ret
    /\ op.during = READY
    /\ state = ERROR
    /\ error_message = MsgNotFound

\* C7: until a load is attempted the state is OFF, with no message.
C7_OffUntilLoad ==
    ~load_attempted => state = OFF /\ error_message = None

\* C8: the state is LOADING while a load runs, whatever it was before, and
\* the state leaves LOADING only to READY or ERROR.
C8_LoadEntersLoading ==
    [][/\ op'.name = "load_model" => op'.during = LOADING
       /\ state = LOADING /\ state' # LOADING => state' \in {READY, ERROR}]_vars

\* C9: in ERROR, no infer, get_detections, unload_model,
\* set_confidence_threshold or set_allowed_class_names call changes the state
\* or its message.
C9_ErrorUntilLoad ==
    [][state = ERROR
       /\ op'.name \in {"infer", "get_detections", "unload_model",
                        "set_confidence_threshold", "set_allowed_class_names"}
       => state' = ERROR /\ error_message' = error_message]_vars

\* the invocations of the model an infer call made, and whether the call
\* returned
Invocations == Len(op.outs)
Returned == \A i \in 1..Len(op.outs) : op.outs[i] # "more"

\* C10: whenever the first attempt of an infer call fails with a device
\* error, inference is retried exactly once, on CPU; an infer call invokes
\* the model at most twice and returns.
C10_RetriedExactlyOnce ==
    op.name = "infer" =>
        /\ Returned
        /\ Invocations <= 2
        /\ Invocations >= 1 /\ op.outs[1] = "device_error"
              => Invocations = 2 /\ device = "cpu"

\* C10 as amended: the retry is made exactly when no earlier call fell back
\* and the model moved to CPU; then it is made once, on CPU. An infer call
\* invokes the model at most twice and returns.
C10_RetriedOnceUnlessFallenBack ==
    op.name = "infer" =>
        /\ Returned
        /\ Invocations <= 2
        /\ Invocations = 2 <=> /\ Invocations >= 1
                               /\ op.outs[1] = "device_error"
                               /\ ~op.flag_before
                               /\ op.moved = "ok"
        /\ Invocations = 2 => device = "cpu" /\ fallback_attempted

\* C10 witness: the first attempt failed with a device error, the retry on
\* CPU failed with one too, and the call returned an empty list.
C10_Witness ==
    /\ op.name = "infer"
    /\ op.outs = <<"device_error", "device_error">>
    /\ op.ret = <<>>
    /\ device = "cpu"

\* the infer call failed: its last invocation of the model raised, or
\* model.to("cpu") did
InferFailed(outs, moved) ==
    \/ outs # <<>> /\ outs[Len(outs)] # "ok"
    \/ moved = "failed"

C12_CacheIsLastResult ==
    [][op.name = "infer" /\ op'.name = "get_detections" => op'.ret = op.ret]_vars

\* the last n lists of a sequence of lists
Suffix(lists, n) ==
    SubSeq(lists, IF Len(lists) > n THEN Len(lists) - n + 1 ELSE 1, Len(lists))

\* C13: the detection history holds at most 10 lists, and they are the last
\* lists pushed, oldest first (a push into a full window evicts the oldest);
\* get_stable_detections() is what the lists still in the window give, the
\* evicted ones having no part in it.
C13_WindowIsLastTen ==
    /\ Len(detection_history) <= HistorySize
    /\ detection_history = Suffix(pushed, HistorySize)
    /\ GetStableDetections(detection_history)
          = GetStableDetections(Suffix(pushed, HistorySize))

\* C13 witness: 11 lists were pushed, the first unlike the second, and the
\* window starts with the second.
C13_Witness ==
    /\ Len(pushed) = HistorySize + 1
    /\ pushed[1] # <<>>
    /\ pushed[1] # pushed[2]
    /\ Len(detection_history) = HistorySize
    /\ detection_history[1] = pushed[2]

\* C14: as long as fewer than 3 lists have been pushed,
\* get_stable_detections() returns an empty list, whatever the lists hold.
C14_EmptyBelowThreeFrames ==
    Len(pushed) < StableWindow => GetStableDetections(detection_history) = <<>>

\* C14 witness: two lists were pushed, both holding the brick 3004.
C14_Witness ==
    /\ Len(pushed) = 2
    /\ \A i \in 1..2 : \E j \in 1..Len(pushed[i]) : pushed[i][j].brick_id = "3004"
    /\ Len(detection_history) = 2

\* the last of the last 3 pushed frames that holds the identity (0 if none)
LatestFrameHolding(id) ==
    LET frames == LastFrames(detection_history)
        holding == {i \in 1..Len(frames) :
                       \E j \in 1..Len(frames[i]) : frames[i][j].brick_id = id}
    IN  IF holding = {} THEN 0 ELSE CHOOSE i \in holding : \A k \in holding : k <= i

\* C15: get_stable_detections() holds no identity twice, holds every identity
\* that appears in 2 of the last 3 pushed frames once, and the detection it
\* gives for an identity is one of the latest frame that holds the identity.
C15_OneMostRecentPerIdentity ==
    LET st     == GetStableDetections(detection_history)
        frames == LastFrames(detection_history)
    IN  /\ \A i, j \in 1..Len(st) : i # j => st[i].brick_id # st[j].brick_id
        /\ Len(detection_history) >= StableWindow =>
              \A id \in PartNumbers :
                  FramesHolding(id) >= StableQuorum =>
                      Cardinality({i \in 1..Len(st) : st[i].brick_id = id}) = 1
        /\ \A i \in 1..Len(st) :
              LET latest == LatestFrameHolding(st[i].brick_id)
              IN  /\ latest > 0
                  /\ \E j \in 1..Len(frames[latest]) : frames[latest][j] = st[i]

\* C15 witness: the brick 3004 is stable, an older frame of the last 3 holds
\* it at another place than the latest frame that holds it, and the
\* detection returned is the one of the latest.
C15_Witness ==
    LET st     == GetStableDetections(detection_history)
        frames == LastFrames(detection_history)
    IN  /\ Len(detection_history) >= StableWindow
        /\ FramesHolding("3004") >= StableQuorum
        /\ \E i \in 1..Len(st) :
              /\ st[i].brick_id = "3004"
              /\ \E k \in 1..Len(frames) :
                    /\ k < LatestFrameHolding("3004")
                    /\ \E j \in 1..Len(frames[k]) :
                          /\ frames[k][j].brick_id = "3004"
                          /\ frames[k][j].bbox # st[i].bbox

\* the identities a list of detections holds
IdsOf(dets) == {dets[i].brick_id : i \in 1..Len(dets)}

\* C16: with a set configured, when two consecutive detect_bricks calls both
\* return no detection of an identity, get_stable_detections() does not hold
\* the identity after the second of them.
C16_DroppedWithinTwoFrames ==
    [][nCalls >= 1 /\ nCalls' = nCalls + 1 =>
          \A id \in PartNumbers :
              id \notin IdsOf(det_ret) /\ id \notin IdsOf(det_ret')
                  => id \notin IdsOf(GetStableDetections(detection_history'))]_vars

\* IoU > 0.3 of two boxes (x, y, w, h), from the definition of IoU
Max(a, b) == IF a > b THEN a ELSE b
Min(a, b) == IF a < b THEN a ELSE b
IoUAbove(b1, b2) ==
    LET iw == Min(b1[1] + b1[3], b2[1] + b2[3]) - Max(b1[1], b2[1])
        ih == Min(b1[2] + b1[4], b2[2] + b2[4]) - Max(b1[2], b2[2])
        inter == IF iw > 0 /\ ih > 0 THEN iw * ih ELSE 0
        union == b1[3] * b1[4] + b2[3] * b2[4] - inter
    IN  union > 0 /\ IoUDen * inter > IoUNum * union

\* how often a list holds a detection
Count(dets, d) == Cardinality({i \in 1..Len(dets) : dets[i] = d})

\* no two detections of the list overlap
NoTwoOverlap(dets) ==
    \A i, j \in 1..Len(dets) : i # j => ~IoUAbove(dets[i].bbox, dets[j].bbox)

\* the list is in descending order of confidence
Descending(dets) ==
    \A i, j \in 1..Len(dets) : i < j => dets[i].confidence >= dets[j].confidence

\* the detection was left out for the cap: 10 detections were kept, none of
\* them of lower confidence
BeyondCap(d, kept) ==
    /\ Len(kept) = MaxDetections
    /\ \A k \in 1..Len(kept) : kept[k].confidence >= d.confidence

\* C17: the result of _filter_detections is made of detections of the input,
\* in descending order of confidence, no two of them with IoU > 0.3, at most
\* 10; every detection of the input left out overlaps a kept detection of
\* equal or higher confidence or lies beyond the cap of 10.
C17_GreedySuppression ==
    call.fn = "_filter_detections" =>
        /\ \A i \in 1..Len(call.ret) :
              Count(call.ret, call.ret[i]) <= Count(call.arg, call.ret[i])
        /\ Descending(call.ret)
        /\ NoTwoOverlap(call.ret)
        /\ Len(call.ret) <= MaxDetections
        /\ \A i \in 1..Len(call.arg) :
              Count(call.ret, call.arg[i]) < Count(call.arg, call.arg[i]) =>
                  \/ \E k \in 1..Len(call.ret) :
                        /\ IoUAbove(call.arg[i].bbox, call.ret[k].bbox)
                        /\ call.ret[k].confidence >= call.arg[i].confidence
                  \/ BeyondCap(call.arg[i], call.ret)

\* C17 witness: of more than 10 detections, given out of order, 10 were
\* kept, one was left out for overlapping a kept one and one, overlapping
\* none, for the cap.
C17_Witness ==
    /\ call.fn = "_filter_detections"
    /\ ~call.again
    /\ Len(call.arg) > MaxDetections
    /\ ~Descending(call.arg)
    /\ Len(call.ret) = MaxDetections
    /\ \E i \in 1..Len(call.arg) :
          /\ Count(call.ret, call.arg[i]) = 0
          /\ \E k \in 1..Len(call.ret) : IoUAbove(call.arg[i].bbox, call.ret[k].bbox)
    /\ \E i \in 1..Len(call.arg) :
          /\ Count(call.ret, call.arg[i]) = 0
          /\ \A k \in 1..Len(call.ret) : ~IoUAbove(call.arg[i].bbox, call.ret[k].bbox)

\* C18: _filter_detections returns a list in which no two detections have
\* IoU > 0.3 unchanged.
C18_SuppressedListUnchanged ==
    call.fn = "_filter_detections" /\ NoTwoOverlap(call.arg) => call.ret = call.arg

\* C18 as amended: _filter_detections returns unchanged a list that is in
\* descending order of confidence, has no two detections with IoU > 0.3 and
\* at most 10 detections; in particular it returns its own result unchanged.
C18_FilteredListUnchanged ==
    call.fn = "_filter_detections" =>
        /\ Descending(call.arg) /\ NoTwoOverlap(call.arg)
             /\ Len(call.arg) <= MaxDetections => call.ret = call.arg
        /\ call.again => call.ret = call.arg

\* C18 witness: a first call left detections out, for overlap and for the
\* cap, and the call on its result returned the 10 detections unchanged.
C18_Witness ==
    /\ call.fn = "_filter_detections"
    /\ call.again
    /\ ~NoTwoOverlap(call.first)
    /\ Len(call.first) > MaxDetections
    /\ Len(call.arg) = MaxDetections
    /\ call.arg[1].confidence > call.arg[MaxDetections].confidence
    /\ call.ret = call.arg

\* where the list holds the detection (the list holds it once)
Position(dets, d) == CHOOSE k \in 1..Len(dets) : dets[k] = d

\* two places of the input hold different detections of one confidence, the
\* first before the second, each held by the input once (equal detections
\* cannot be told apart in the output)
Tied(dets, i, j) ==
    /\ i < j
    /\ dets[i] # dets[j]
    /\ dets[i].confidence = dets[j].confidence
    /\ Count(dets, dets[i]) = 1
    /\ Count(dets, dets[j]) = 1

\* detections of equal confidence keep their input order in the output
TiesKeepOrder(given, kept) ==
    \A i, j \in 1..Len(given) :
        Tied(given, i, j) /\ Count(kept, given[i]) > 0 /\ Count(kept, given[j]) > 0
            => Position(kept, given[i]) < Position(kept, given[j])

Outstanding ==
    {Bricks[i].part_number : i \in {k \in 1..Len(Bricks) :
        det_call.found[Bricks[k].part_number] < Bricks[k].quantity}}

AcceptedContours ==
    SelectSeq(FindBrickContours(det_call.frame),
              LAMBDA c : MatchBrickColor(c, det_call.found, det_call.threshold) # NoneRec)

\* C21: in detect_bricks, every contour of the shape finder whose colour
\* match is accepted gives exactly one DetectionResult to non-maximum
\* suppression: as many detections enter it as matches were accepted, one at
\* the bounding box of each.
C21_OneResultPerAcceptedMatch ==
    det_call # NoneRec /\ det_call.configured =>
        /\ Len(det_call.entered) = Len(AcceptedContours)
        /\ \A i \in 1..Len(AcceptedContours) :
              Cardinality({j \in 1..Len(det_call.entered) :
                              det_call.entered[j].bbox = AcceptedContours[i].bbox}) = 1

\* the infer call invoked the model with success
InferSucceeded == op.name = "infer" /\ op.outs # <<>> /\ op.outs[Len(op.outs)] = "ok"

\* the class name of a box, lower-cased
BoxName(box) ==
    IF box.cls = 0 THEN "2x4 red brick"
    ELSE IF box.cls = 1 THEN "blue plate" ELSE "class 7"

\* the name contains the token (a trimmed, lower-cased name of AllowLists)
NameHasToken(name, token) ==
    \/ token = "red" /\ name = "2x4 red brick"
    \/ token = "blue plate" /\ name = "blue plate"

\* the box passes the allow-list in force
PassesAllowList(box) ==
    \/ allowed_class_names = NoneRec
    \/ allowed_class_names.set = {}
    \/ \E token \in allowed_class_names.set :
          BoxName(box) = token \/ NameHasToken(BoxName(box), token)

\* the (class id, confidence) pairs of a list of boxes or detections
Pairs(boxes) == [i \in 1..Len(boxes) |-> <<boxes[i].cls, boxes[i].conf>>]
PairsOfDetections(dets) ==
    [i \in 1..Len(dets) |-> <<dets[i].class_id, dets[i].confidence>>]

\* C22: infer returns the boxes of the model output whose confidence is at
\* or above confidence_threshold and which pass the allow-list, in the order
\* of the model output, and no other; a set_confidence_threshold call with a
\* value in [0, 1] makes that value the threshold.
C22_ThresholdFilter ==
    /\ InferSucceeded =>
          /\ PairsOfDetections(op.ret) =
                Pairs(SelectSeq(op.raw, LAMBDA box :
                          box.conf >= confidence_threshold /\ PassesAllowList(box)))
          /\ \A i \in 1..Len(op.ret) : op.ret[i].confidence >= confidence_threshold
    /\ op.name = "set_confidence_threshold" /\ op.arg \in 0..100
          => confidence_threshold = op.arg

\* C22 witness: with the threshold set to 0.6 and no allow-list, the model
\* returned boxes of 0.90, 0.55 and 0.61, and infer returned the first and
\* the last, in this order.
C22_Witness ==
    /\ InferSucceeded
    /\ confidence_threshold = 60
    /\ allowed_class_names = NoneRec
    /\ Pairs(op.raw) = << <<1, 90>>, <<0, 55>>, <<0, 61>> >>
    /\ PairsOfDetections(op.ret) = << <<1, 90>>, <<0, 61>> >>

\* a name given to set_allowed_class_names, trimmed and lower-cased
Trimmed(n) ==
    IF n = " Red " THEN "red"
    ELSE IF n = "Blue Plate" THEN "blue plate"
    ELSE IF n = "Plate 7" THEN "plate 7" ELSE ""

\* the elements of a sequence
Range(seq) == { seq[i] : i \in 1..Len(seq) }

\* C23: with a non-empty allow-list infer keeps a box (of sufficient
\* confidence) exactly when its lower-cased class name equals a token or
\* contains one; with the allow-list None or empty it keeps every such box;
\* set_allowed_class_names stores the trimmed, lower-cased non-blank names,
\* and None (or no name) sets the allow-list back to None.
C23_AllowListFilter ==
    /\ InferSucceeded =>
          \A i \in 1..Len(op.raw) :
              op.raw[i].conf >= confidence_threshold =>
                  ( <<op.raw[i].cls, op.raw[i].conf>> \in Range(PairsOfDetections(op.ret))
                    <=> IF allowed_class_names = NoneRec THEN TRUE
                        ELSE IF allowed_class_names.set = {} THEN TRUE
                        ELSE \E token \in allowed_class_names.set :
                                \/ BoxName(op.raw[i]) = token
                                \/ NameHasToken(BoxName(op.raw[i]), token) )
    /\ op.name = "set_allowed_class_names" =>
          IF op.arg = NoneRec THEN allowed_class_names = NoneRec
          ELSE IF op.arg.set = {} THEN allowed_class_names = NoneRec
          ELSE /\ allowed_class_names # NoneRec
               /\ allowed_class_names.set = { Trimmed(n) : n \in op.arg.set } \ {""}

\* C23 witness: with the allow-list {"red"} the model returned a
\* "2x4 Red Brick", a "Blue Plate" and a "Class 7", all of sufficient
\* confidence, and infer returned the "2x4 Red Brick" alone.
C23_Witness ==
    /\ InferSucceeded
    /\ allowed_class_names = [set |-> {"red"}]
    /\ confidence_threshold = 60
    /\ Pairs(op.raw) = << <<0, 61>>, <<1, 90>>, <<7, 100>> >>
    /\ PairsOfDetections(op.ret) = << <<0, 61>> >>

\* C23 witness of the way back: after an infer under a non-empty allow-list
\* the allow-list was set to None, and it is None.
C23_WitnessRestored ==
    /\ op.name = "set_allowed_class_names"
    /\ op.arg = NoneRec
    /\ allowed_class_names = NoneRec
    /\ last_detections # <<>>

\* C24: after any number of toggles ACTIVE -> READY -> ACTIVE made in a row
\* the state is ACTIVE, there is no error message, and the model handle, the
\* confidence threshold, the allow-list, the cached detections, the fallback
\* flag and the device are as they were before the toggles.
C24_TogglingKeepsFields ==
    op.name = "enable" /\ op.n >= 1 =>
        /\ state = ACTIVE
        /\ error_message = None
        /\ OtherFields = op.before

\* C24 witness: two toggles in a row were made on an engine with cached
\* detections, an allow-list, a threshold that is not the default and the
\* fallback flag set.
C24_Witness ==
    /\ op.name = "enable"
    /\ op.n = 2
    /\ state = ACTIVE
    /\ last_detections # <<>>
    /\ allowed_class_names # NoneRec
    /\ confidence_threshold # DefaultConfidencePct
    /\ fallback_attempted

\* the main flow has handled the finished signal of the running loader
FinishedObserved ==
    \E i \in 1..delivered : emitted[i] \in {"finished(True)", "finished(False)"}

\* the loader thread's set_state call takes the state out of LOADING
LoaderLeavesLoading ==
    /\ pc["loader"] = "write_state"
    /\ pc'["loader"] = "write_msg"
    /\ state = LOADING
    /\ state' \in {READY, ERROR}

\* C25: the loader takes the state out of LOADING only after the main flow
\* has handled its finished signal, and a reader sees READY or ERROR written
\* by a load only when that load's finished signal has been handled.
C25_LeavesLoadingAfterSignal ==
    [][ /\ LoaderLeavesLoading => FinishedObserved
        /\ ( /\ pc["reader"] # "read_msg" /\ pc'["reader"] = "read_msg"
             /\ last_args = arg["loader"]
             /\ pc["loader"] \notin {"idle", "acquire"}
             /\ rd'["reader"].state \in {READY, ERROR} ) => FinishedObserved ]_vars

\* C26: a frame delivered after stop_detection, and before a start_detection
\* has succeeded, causes no detect_bricks call.
C26_NoDetectionAfterStop ==
    gui_op.name = "frame" /\ gui_op.stopped => ~gui_op.detected

\* the gate of stop_detection itself: a frame handled while is_detecting is
\* off runs no detection, pushes nothing, and is displayed
C26_FlagGatesDetection ==
    [][ \A f \in Frames : UpdateFrame(f) /\ ~is_detecting =>
            /\ ~gui_op'.detected
            /\ UNCHANGED <<nCalls, nPushes, detection_history>> ]_vars

\* a frame was delivered and displayed after stop_detection, with the
\* detector configured, and no detection ran
C26_FlagGatesDetectionSeen ==
    /\ gui_op.name = "frame" /\ gui_op.stopped /\ gui_op.displayed
    /\ ~gui_op.detected /\ current_set # None /\ nCalls > 0

\* C28: while set_params has not been called, match_brick_color returns for
\* every region of the frame what it returns under the default colour
\* threshold: the best-matching outstanding brick if its similarity exceeds
\* that threshold.
C28_DefaultThresholdInForce ==
    det_call # NoneRec /\ det_call.configured /\ det_call.threshold = Unset =>
        \A i \in 1..Len(FindBrickContours(det_call.frame)) :
            MatchBrickColor(FindBrickContours(det_call.frame)[i], det_call.found,
                            det_call.threshold)
            = MatchBrickColor(FindBrickContours(det_call.frame)[i], det_call.found,
                              DefaultColorThreshold)

\* C29: constructing a DetectionResult (with a box of four numbers) raises
\* ValueError for every confidence below 0.0 or above 1.0 and succeeds for
\* every confidence from 0.0 to 1.0, both included.
C29_ConfidenceValidated ==
    call.fn = "DetectionResult" /\ Len(call.bbox) = 4 =>
        /\ (call.confidence < 0 \/ call.confidence > 100) => call.ret = ValueError
        /\ (call.confidence >= 0 /\ call.confidence <= 100) =>
              /\ call.ret # ValueError
              /\ call.ret.confidence = call.confidence

\* C29 witness: a DetectionResult of confidence 1.0 was constructed.
C29_Witness ==
    /\ call.fn = "DetectionResult"
    /\ call.confidence = 100
    /\ call.bbox = <<0, 0, 40, 40>>
    /\ call.ret # ValueError

\* a DetectionResult of confidence 1.01 was refused
C29_WitnessRefused ==
    /\ call.fn = "DetectionResult"
    /\ call.confidence = 101
    /\ call.bbox = <<0, 0, 40, 40>>
    /\ call.ret = ValueError

\* C30: a DetectionResult constructed without a centre has the centre
\* (x + w // 2, y + h // 2), the halves rounded down; a centre given to
\* the constructor is kept.
C30_CenterFilledOrKept ==
    call.fn = "DetectionResult" /\ call.ret # ValueError =>
        IF call.center_point = NoCenter
        THEN LET dx == call.ret.center_point[1] - call.bbox[1]
                 dy == call.ret.center_point[2] - call.bbox[2]
             IN  /\ 2 * dx <= call.bbox[3] /\ call.bbox[3] < 2 * dx + 2
                 /\ 2 * dy <= call.bbox[4] /\ call.bbox[4] < 2 * dy + 2
        ELSE call.ret.center_point = call.center_point

\* C30 witness: the box (10, 20, 41, 33) without a centre got the centre
\* (30, 36).
C30_Witness ==
    /\ call.fn = "DetectionResult"
    /\ call.center_point = NoCenter
    /\ call.bbox = <<10, 20, 41, 33>>
    /\ call.ret # ValueError
    /\ call.ret.center_point = <<30, 36>>

\* a centre given to the constructor was kept
C30_WitnessKept ==
    /\ call.fn = "DetectionResult"
    /\ call.center_point = <<7, 9>>
    /\ call.bbox = <<10, 20, 41, 33>>
    /\ call.ret # ValueError
    /\ call.ret.center_point = <<7, 9>>

\* the regions of a frame that can be read
Readable(frame) == SelectSeq(FindBrickContours(frame), LAMBDA c : c.rgb # <<>>)

\* C27: no call of the core hands an exception to its caller. A failing
\* load_model returns False in ERROR with a message; a failing infer returns
\* an empty list; unload_model leaves no model; a setter given a value it
\* cannot use leaves its field; find_brick_contours answers a frame it
\* cannot convert with no contour; match_brick_color raises nothing and
\* answers a region it cannot read, and any region while no threshold is
\* set, with None; detect_bricks returns the empty list for a frame that
\* cannot be converted, and drops a region that cannot be read without
\* losing the other regions.
C27_NoExceptionEscapes ==
    /\ op.name = "load_model" =>
          IF op.ret THEN state = READY
          ELSE state = ERROR /\ error_message # None
    /\ op.name = "infer" /\ InferFailed(op.outs, op.moved) => op.ret = <<>>
    /\ op.name = "unload_model" => model = None
    /\ op.name = "set_confidence_threshold(invalid)" =>
          confidence_threshold = op.before
    /\ op.name = "set_allowed_class_names(invalid)" =>
          allowed_class_names = op.before
    /\ call.fn = "find_brick_contours" /\ call.frame = BadFrame => call.ret = <<>>
    /\ call.fn = "match_brick_color" =>
          /\ call.ret # Raised
          /\ (call.region.rgb = <<>> \/ call.threshold = Unset) => call.ret = NoneRec
    /\ det_call # NoneRec =>
          /\ det_call.frame = BadFrame => det_ret = <<>> /\ det_call.entered = <<>>
          /\ det_call.configured =>
                det_call.entered =
                    AnalyzeAll(Readable(det_call.frame), det_call.found,
                               det_call.threshold)

\* C27 witness: detect_bricks was given a frame with a region that cannot be
\* read and a red one: it dropped the first and returned the detection of
\* the second.
C27_Witness ==
    /\ det_call # NoneRec
    /\ det_call.frame = <<BrokenAt300, RedAt100>>
    /\ Len(det_ret) = 1
    /\ det_ret[1].bbox = RedAt100.bbox

\* a load_model that failed, an infer that failed, a frame that could not
\* be converted: each was answered without an exception
C27_WitnessLoad == op.name = "load_model" /\ ~op.ret /\ state = ERROR
C27_WitnessInfer == op.name = "infer" /\ InferFailed(op.outs, op.moved) /\ op.ret = <<>>
C27_WitnessFrame == call.fn = "find_brick_contours" /\ call.frame = BadFrame /\ call.ret = <<>>

\* the squared distance of a region's colour to the colour of a catalog entry
TrueDist2(region, brick) == Dist2(region.rgb, LEGO_COLORS[GetBrickColorName(brick)])

\* the position in the catalog of the outstanding entry most similar to the
\* region, the first one on a tie; 0 if no entry is outstanding
MostSimilar(region, found) ==
    LET outstanding == { i \in 1..Len(Bricks) : ~IsFullyFound(Bricks[i], found) }
    IN  IF outstanding = {} THEN 0
        ELSE CHOOSE i \in outstanding :
                \A j \in outstanding :
                    \/ TrueDist2(region, Bricks[i]) < TrueDist2(region, Bricks[j])
                    \/ TrueDist2(region, Bricks[i]) = TrueDist2(region, Bricks[j]) /\ i <= j

\* C31: with a colour threshold set, match_brick_color returns for every
\* region of the frame the outstanding catalog entry most similar in colour
\* to the region (the first on a tie) if that similarity exceeds
\* color_threshold / 255, and None otherwise.
C31_MostSimilarOutstanding ==
    det_call # NoneRec /\ det_call.configured /\ det_call.threshold # Unset =>
        \A k \in 1..Len(FindBrickContours(det_call.frame)) :
            LET region == FindBrickContours(det_call.frame)[k]
                i == MostSimilar(region, det_call.found)
                ret == MatchBrickColor(region, det_call.found, det_call.threshold)
            IN  IF i # 0 /\ AboveThreshold(TrueDist2(region, Bricks[i]), det_call.threshold)
                THEN ret # NoneRec /\ ret.brick_id = Bricks[i].part_number
                ELSE ret = NoneRec

CounterOps == {"mark_brick_found", "unmark_brick_found",
               "increment_brick_counter", "decrement_brick_counter"}
\* what the call asked for: the found quantity of its brick after the change
Asked(o) ==
    IF o.name \in {"mark_brick_found", "increment_brick_counter"}
    THEN o.before[o.part] + o.amount
    ELSE o.before[o.part] - o.amount

\* C32: after any sequence of increment_brick_counter, decrement_brick_counter,
\* mark_brick_found and unmark_brick_found calls with positive amounts every
\* brick has 0 <= found_quantity <= quantity; a change that would leave the
\* range is refused and leaves found_quantity as it was, a change that stays
\* in the range is made, and a call for a part number that is not in the set
\* changes no brick.
C32_CountersStayInRange ==
    /\ \A p \in WidgetParts : 0 <= list_found[p] /\ list_found[p] <= QuantityOf(p)
    /\ list_op.name \in CounterOps =>
          IF list_op.part \notin WidgetParts
          THEN list_found = list_op.before /\ ~list_op.ret
          ELSE IF Asked(list_op) < 0 \/ Asked(list_op) > QuantityOf(list_op.part)
               THEN list_found = list_op.before /\ ~list_op.ret
               ELSE /\ list_op.ret
                    /\ list_found = [list_op.before EXCEPT ![list_op.part] = Asked(list_op)]
\* a mark_brick_found that would pass the quantity was refused
C32_Witness ==
    /\ list_op.name = "mark_brick_found" /\ list_op.part = "3001"
    /\ list_op.before["3001"] = 1 /\ list_op.amount = 2
    /\ list_found["3001"] = 1
\* a decrement at zero was refused, and a call named a part that is not in the set
C32_WitnessFloor ==
    /\ list_op.name = "decrement_brick_counter" /\ list_op.part = "3002"
    /\ list_op.before["3002"] = 0 /\ list_found["3002"] = 0
    /\ list_found["3001"] = 2
C32_WitnessUnknownPart ==
    /\ list_op.name = "increment_brick_counter" /\ list_op.part = "9999"
    /\ list_found = list_op.before /\ list_found["3002"] = 3

\* C33: after any sequence of get_image calls the cache holds at most max_size
\* entries; an insertion that exceeds max_size evicts the least recently used
\* entry and no other, and a hit makes its entry the most recently used and
\* keeps every entry.
C33_LruBound ==
    /\ Len(cache) <= MaxSize
    /\ \A i, j \in 1..Len(cache) : i # j => cache[i] # cache[j]
    /\ cache_op.name = "get_image" =>
          /\ cache # <<>> /\ cache[Len(cache)] = cache_op.part
          /\ IF cache_op.hit
             THEN /\ Len(cache) = Len(cache_op.before)
                  /\ Without(cache, cache_op.part) = Without(cache_op.before, cache_op.part)
             ELSE IF Len(cache_op.before) = MaxSize
                  THEN cache = Append(Tail(cache_op.before), cache_op.part)
                  ELSE cache = Append(cache_op.before, cache_op.part)
\* a full cache took a new key and lost its oldest one
C33_Witness ==
    /\ cache_op.name = "get_image" /\ ~cache_op.hit
    /\ Len(cache_op.before) = MaxSize
    /\ ~InCache(cache, cache_op.before[1])
\* a hit on the oldest key of a full cache moved it to the end
C33_WitnessHit ==
    /\ cache_op.name = "get_image" /\ cache_op.hit
    /\ Len(cache_op.before) = MaxSize /\ MaxSize > 1
    /\ cache_op.before[1] = cache_op.part
    /\ cache[Len(cache)] = cache_op.part

\* C34: update_detection_status(S) only records S as pending, and after the
\* next _apply_detection_updates() the detected set of the widget equals S
\* and the detected flag of every item is true exactly for the part numbers
\* of S.
C34_PendingApplied ==
    /\ list_op.name = "update_detection_status" =>
          /\ pending_detections = list_op.arg
          /\ detected_bricks = list_op.detected_before
          /\ is_detected = list_op.flags_before
    /\ list_op.name = "_apply_detection_updates" =>
          /\ detected_bricks = list_op.pending
          /\ \A p \in WidgetParts : is_detected[p] <=> p \in list_op.pending

\* a load_model call that got as far as placing the model and could not place
\* it on the preferred device
PlacementFailed ==
    /\ op.name = "load_model"
    /\ op.env.exists /\ op.env.import_ok /\ op.env.construct_ok /\ ~op.env.place_ok

\* C35: when load_model cannot place the model on the preferred device and
\* the placement on the CPU succeeds, the call returns True, the state is
\* READY and the device is "cpu"; the load ends in ERROR, returning False,
\* only when the placement on the CPU fails too. A device that is "cpu"
\* stays "cpu" for every later call, infer included.
C35_PlacementFallback ==
    /\ [](PlacementFailed =>
            IF op.env.cpu_ok
            THEN op.ret /\ state = READY /\ error_message = None
                 /\ device = "cpu" /\ model # None
            ELSE ~op.ret /\ state = ERROR)
    /\ [][device = "cpu" => device' = "cpu"]_vars
\* a load fell back to the CPU; another found no device to place the model on
C35_Witness == PlacementFailed /\ op.env.cpu_ok /\ device = "cpu" /\ state = READY
C35_WitnessError == PlacementFailed /\ ~op.env.cpu_ok /\ state = ERROR /\ device = "cuda"

Finished(signals) == Count(signals, "finished(True)") + Count(signals, "finished(False)")
\* load_model, called by the run in progress, returned True
LoadSucceeded == arg["loader"][1] = READY
\* a run of the loader thread is under way
LoaderRunning == pc["loader"] \notin {"idle", "done"}

\* C36: every run of ModelLoaderThread terminates; it emits finished exactly
\* once, as its last signal, with True exactly when load_model succeeded; a
\* failed run emits error exactly once, before finished(False), and a
\* successful run emits no error; once finished has been emitted the
\* lifecycle state is not LOADING.
C36_RunEndsWithOneFinished ==
    /\ LoaderRunning ~> pc["loader"] = "done"
    /\ [](LoaderRunning => Finished(emitted) = 0)
    /\ [](pc["loader"] = "done" =>
            /\ Finished(emitted) = 1
            /\ emitted[Len(emitted)] =
                  IF LoadSucceeded THEN "finished(True)" ELSE "finished(False)"
            /\ Count(emitted, "error") = IF LoadSucceeded THEN 0 ELSE 1
            /\ ~LoadSucceeded => emitted[Len(emitted) - 1] = "error")
    /\ [](Finished(emitted) > 0 => state # LOADING)
\* a failed run has ended with error and finished(False); a successful one
\* with finished(True)
C36_Witness ==
    /\ pc["loader"] = "done" /\ ~LoadSucceeded
    /\ emitted = <<"progress", "error", "finished(False)">>
C36_WitnessSuccess ==
    /\ pc["loader"] = "done" /\ LoadSucceeded
    /\ emitted = <<"progress", "progress", "finished(True)">>

BrickOf(brick_id) == Bricks[CHOOSE i \in 1..Len(Bricks) : Bricks[i].part_number = brick_id]

\* C37: while a brick is manually marked, detect_bricks returns no detection
\* with that brick's id and the colour matcher offers no such brick: every
\* region it matches, and every detection returned, names a brick for which
\* should_be_detected() holds.
C37_ManuallyMarkedExcluded ==
    [][nCalls' # nCalls =>
        /\ \A i \in 1..Len(det_ret') :
              ShouldBeDetected(BrickOf(det_ret'[i].brick_id), found_quantity, manually_marked)
        /\ \A k \in 1..Len(FindBrickContours(det_call'.frame)) :
              LET match == MatchBrickColor(FindBrickContours(det_call'.frame)[k],
                                           found_quantity, color_threshold)
              IN  match # NoneRec =>
                    ShouldBeDetected(BrickOf(match.brick_id), found_quantity, manually_marked)
      ]_vars

\* C38: across any sequence of load_model, unload_model and infer calls (a
\* run of ModelLoaderThread changes the state through load_model alone) the
\* stored error message is a non-empty text exactly when the state is ERROR.
C38_MessageIffError ==
    /\ state = ERROR <=> error_message # None
    /\ error_message # None => error_message \in {MsgNotFound, MsgNoRuntime, MsgFailed}
\* a load that followed a failed one succeeded and cleared the message
C38_Witness ==
    /\ op.name = "load_model" /\ op.during = ERROR
    /\ state = READY /\ error_message = None
\* a failed reload of a loaded engine left ERROR with its message, and an
\* infer call after it changed neither
C38_WitnessError ==
    /\ op.name = "infer" /\ state = ERROR /\ error_message = MsgNotFound /\ model # None

NotServing == {OFF, LOADING, ERROR}

\* C39: after any sequence of load_model and unload_model calls the engine
\* holds a model only while the state is READY or ACTIVE: whenever the state
\* is OFF, LOADING or ERROR no model is held, and an infer call made in such
\* a state returns an empty list.
C39_ModelOnlyWhileServing ==
    /\ state \in NotServing => model = None
    /\ op.name = "infer" /\ state \in NotServing => op.ret = <<>>

BothReturned == race_pc["unload"] = "done" /\ race_pc["infer"] = "done"

\* C40: with unload_model on one thread and infer on another, in every
\* interleaving of their steps infer returns a list and raises nothing, and
\* once both have ended no model is held and the state is OFF.
C40_InferSurvivesUnload ==
    /\ infer_ret.kind # "raised"
    /\ BothReturned => model = None /\ state = OFF
====
